---- MODULE Spec2Model ----
(***************************************************************************)
(* Model of the frame-analysis gateway of san-kum/motorcycle-cv:           *)
(*   - ProcessingQueue (server/processor/queue.go): bounded channel,       *)
(*     worker pool, Enqueue, Shutdown;                                      *)
(*   - FrameProcessor (processor, cache-aware version): ProcessFrame,      *)
(*     processFrame (the worker handler), generateFeedback,                *)
(*     isSimilarFrame, getCachedResult;                                     *)
(*   - MemoryCache (cache): Set, SetWithTTL, Get, Exists, Delete, GetTTL,  *)
(*     Increment, IncrementWithTTL, GetStats, Close, evictLRU,             *)
(*     cleanupExpired; Get also step by step, lock section by lock section; *)
(*   - RateLimiter (server/middleware/auth.go): allowRequestWithConfig,    *)
(*     ClientBucket.allowRequest, cleanupExpiredClients;                   *)
(*   - WebSocketHandler (server/handlers/websocket.go): the read loop of   *)
(*     HandleWebSocket, handleMessage, processVideoFrame, sendMessage,     *)
(*     pingRoutine.                                                        *)
(* The cache's time is counted in units of five minutes, the value of both *)
(* the cache TTL and the similarity TTL.  The frame-processing behaviours  *)
(* take place within one such unit; the cache behaviours of SpecCache and  *)
(* SpecGet let the clock advance (Tick) up to MaxTime.  The rate limiter   *)
(* has a clock of its own, in ticks of half a token interval.              *)
(***************************************************************************)
EXTENDS Integers, Sequences, FiniteSets, TLC

\* ---------------------------------------------------------------- bounds
\* Number of ProcessFrame calls (each on its own goroutine).
MaxCalls == 2
\* Capacity of the pq.items channel (MaxQueueSize, scaled down).
QueueCapacity == 1
\* Number of worker goroutines (MaxWorkers, scaled down).
NumWorkers == 1
\* Entry ceiling of the MemoryCache (maxSize, scaled down).
CacheMaxSize == 1
\* Number of calls a client of the Cache interface makes.
MaxOps == 2
\* Number of allow calls made while request goroutines overlap.
MaxAllows == 5
\* Number of messages a client sends on one websocket session.
MaxMsgs == 3

\* ------------------------------------------------------- program constants
\* cache TTL handed to NewMemoryCache, in units of five minutes.
CacheTTL == 1
\* TTL of the similarity mark (5*time.Minute), in units of five minutes.
SimilarityTTL == 1
\* ProcessorConfig.SkipSimilarFrames as set by NewFrameProcessor.
SkipSimilarFrames == TRUE
\* SecurityConfig.RateLimitRPS and RateLimitBurst, as the environment sets them.
\* ClientConfig.MaxRetries as NewClient sets it.
MaxRetries == 3
RateLimitRPS == 2
RateLimitBurst == 3

\* The clock runs until the cache's own TTL has elapsed.
MaxTime == CacheTTL + 1
\* The ttl a client hands to SetWithTTL and IncrementWithTTL.
LongTTL == CacheTTL + 1
\* The keys a client of the cache uses: enough to go past the ceiling.
APIKeys == { << "key", i >> : i \in 1..(CacheMaxSize + 1) }
\* The dest a client hands to Get: a *interface{} or a pointer to a typed value.
DestKinds == { "*interface{}", "*T" }

Calls == 1..MaxCalls
Workers == 1..NumWorkers
ShutdownCallers == {"s1", "s2"}
\* Goroutines that call cache.Get at the same time as the writers.
Getters == { "g1" }
\* Calls started on the cache they share.
MaxGetOps == MaxOps + 1

\* The rate limiter's clock counts ticks of half a token interval.
TicksPerSecond == 2 * RateLimitRPS
\* 10*time.Minute, the idle time after which the reaper drops a bucket.
ReapIdle == 600 * TicksPerSecond
\* How far the clock moves at once: a tick, a second, past the reaper's limit.
TimeSteps == { 1, TicksPerSecond, ReapIdle + 1 }
\* The steps taken while request goroutines overlap.
LongSteps == { TicksPerSecond, ReapIdle + 1 }
\* (rps, burst) of allowRequest, and of a RateLimitWithConfig route.
DefaultConfig == [rps |-> RateLimitRPS, burst |-> RateLimitBurst]
CustomConfig == [rps |-> RateLimitRPS - 1, burst |-> RateLimitBurst + 1]
LimitConfigs == { DefaultConfig, CustomConfig }
\* c.ClientIP() of the requests.
ClientIPs == { "10.0.0.1" }
\* Request goroutines inside the limiter at the same time.
LimiterThreads == { "t1", "t2" }
\* Calls of one client that runs alone: a burst and a half, and three more.
ScenarioCalls == MaxAllows + 3

\* ClientMessage.Type as handleMessage tells them apart, and whether
\* ClientMessage.Data decodes (extractImageData, json.Unmarshal).
MsgTypes == { "ping", "frame", "config", "other" }
DataDecodes == { TRUE, FALSE }
\* The frames of a session, numbered in the order they were read.
Frames == 1..MaxMsgs
\* The goroutines of a session: the read loop (HandleWebSocket itself), the
\* pingRoutine and the goroutine of each frame.
ReadTask == << "read" >>
PingTask == << "ping" >>
FrameTask(f) == << "frame", f >>
Senders == { ReadTask } \cup { FrameTask(f) : f \in Frames }
SessionTasks == Senders \cup { PingTask }
NoTask == << "free" >>
\* Messages read in a session whose connection may fail at any point.
SessionMsgs == MaxMsgs - 1

\* The (image bytes, client_id) pairs submitted: one frame, two clients.
Requests == { <<"B1", "A">>, <<"B1", "B">> }

\* Score values on both sides of every threshold of generateFeedback.
ScoreValues == { 59, 60, 64, 65, 69, 70, 80, 81, 85, 86 }

\* Push calls on the PriorityQueue.
MaxPushes == 4
\* Values of QueueItem.Priority.
Priorities == { 1, 2, 3 }

\* The background goroutines with a ticker: MemoryCache.cleanupExpired,
\* RateLimiter.cleanupExpiredClients, Client.startHealthChecker.
BackgroundTasks == { "sweeper", "reaper", "health" }

\* ------------------------------------------------------------ data model
\* models.AnalysisResult, reduced to the four scores and the feedback list.
Result(o, p, l, s, fb) ==
    [overall |-> o, posture |-> p, lane |-> l, speed |-> s, feedback |-> fb]

\* The zero value of models.AnalysisResult (var cachedResult models.AnalysisResult).
ZeroResult == Result(0, 0, 0, 0, <<>>)

\* models.Feedback{Type, Message, Score}; the message is named by a short tag.
Feedback(t, m, s) == [type |-> t, message |-> m, score |-> s]

NoAnalysis == [none |-> TRUE]
\* ProcessingResult{Analysis, Error}
ProcessingResult(a, e) == [analysis |-> a, error |-> e]

\* Scores the inference service may answer with; the client copies them as they
\* are, so values outside [0,100] are among them.
MLScores == { <<90, 90, 90, 90>>, <<50, 50, 50, 50>>, <<120, 86, 59, 64>> }

\* What fp.mlClient.AnalyzeFrame can do: return a result, return an error,
\* return (nil, nil), or panic.
MLOutcomes == { [kind |-> "ok", scores |-> s] : s \in MLScores }
              \cup { [kind |-> "err"], [kind |-> "nil"], [kind |-> "panic"] }

\* The outcomes that return something to the caller of ProcessFrame's cache
\* paths: an in-range answer, an out-of-range answer, an error and (nil, nil).
FrameOutcomes == { [kind |-> "ok", scores |-> <<90, 90, 90, 90>>],
                   [kind |-> "ok", scores |-> <<120, 86, 59, 64>>],
                   [kind |-> "err"], [kind |-> "nil"] }

\* One outcome of each kind.
QueueOutcomes == { [kind |-> "ok", scores |-> <<90, 90, 90, 90>>],
                   [kind |-> "err"], [kind |-> "nil"], [kind |-> "panic"] }

\* Client.convertMLResponse: the four scores are copied, no feedback yet.
convertMLResponse(s) == Result(s[1], s[2], s[3], s[4], <<>>)

\* generateFeedback with its rules chained by else: the first that holds is
\* the only one that fires.
generateFeedback_Chained(a) ==
    IF a.posture < 70 THEN << Feedback("warning", "posture_low", a.posture) >>
    ELSE IF a.posture > 85 THEN << Feedback("success", "posture_high", a.posture) >>
    ELSE IF a.lane < 60 THEN << Feedback("error", "lane", a.lane) >>
    ELSE IF a.speed < 65 THEN << Feedback("warning", "speed", a.speed) >>
    ELSE IF a.overall > 80 THEN << Feedback("success", "overall", a.overall) >>
    ELSE <<>>

\* generateFeedback without its last rule (overall > 80).
generateFeedback_NoOverall(a) ==
    (IF a.posture < 70 THEN << Feedback("warning", "posture_low", a.posture) >>
     ELSE IF a.posture > 85 THEN << Feedback("success", "posture_high", a.posture) >>
     ELSE <<>>)
    \o (IF a.lane < 60 THEN << Feedback("error", "lane", a.lane) >> ELSE <<>>)
    \o (IF a.speed < 65 THEN << Feedback("warning", "speed", a.speed) >> ELSE <<>>)

\* FrameProcessor.generateFeedback
generateFeedback(a) ==
    (IF a.posture < 70 THEN << Feedback("warning", "posture_low", a.posture) >>
     ELSE IF a.posture > 85 THEN << Feedback("success", "posture_high", a.posture) >>
     ELSE <<>>)
    \o (IF a.lane < 60 THEN << Feedback("error", "lane", a.lane) >> ELSE <<>>)
    \o (IF a.speed < 65 THEN << Feedback("warning", "speed", a.speed) >> ELSE <<>>)
    \o (IF a.overall > 80 THEN << Feedback("success", "overall", a.overall) >> ELSE <<>>)

\* FrameProcessor.getCachedResult: the synthetic result for a similar frame.
getCachedResult ==
    Result(75, 80, 70, 75, << Feedback("info", "cached", 75) >>)

\* The neutral default processFrame substitutes for a nil analysis.
DefaultAnalysis == Result(50, 50, 50, 50, <<>>)

\* generateFrameHash / cache.GenerateCacheKey: the digest of the concatenated
\* components, taken as injective on the components.
generateFrameHash(img) == << "md5", img >>
GenerateCacheKey(components) == << "md5", components >>
FrameKey(img, cl) == GenerateCacheKey(<< "frame", generateFrameHash(img), cl >>)
SimilarityKey(img) == GenerateCacheKey(<< "similarity", generateFrameHash(img) >>)

VARIABLES
    \* ---- ProcessingQueue
    items,           \* pq.items: the buffered calls (a call's id names its QueueItem)
    itemsClosed,     \* how many times close(pq.items) ran
    shutdownClosed,  \* how many times close(pq.shutdown) ran
    isRunning,       \* pq.isRunning
    wpc,             \* worker -> "select" | "handling" | "exited"
    wItem,           \* worker -> the item it dequeued (0: none)
    wPanics,         \* worker -> whether a handler it ran has panicked
    started,         \* number of worker goroutines ever started
    inFlight,        \* handler invocations in progress
    sdpc,            \* Shutdown caller -> "idle" | "close" | "wait" | "returned"
    sdResult,        \* Shutdown caller -> "none" | "nil" | "timeout"
    atShutdown,      \* items in flight when isRunning was set to false
    \* ---- QueueItem.ResultChan of each call
    sink,            \* call -> buffered results (capacity 1)
    written,         \* call -> number of results ever sent to its sink
    outcome,         \* call -> what AnalyzeFrame did for it ("none" before)
    \* ---- FrameProcessor.ProcessFrame, one per call
    pc,              \* call -> program position
    req,             \* call -> [image, client]
    ret,             \* call -> [kind, value] returned to the caller
    path,            \* call -> which return path was taken
    enq,             \* call -> Enqueue bookkeeping
    simSet,          \* call -> "none" | "pending" | "done": go SetWithTTL(similarityKey)
    resSet,          \* call -> "none" | "pending" | "done": go Set(cacheKey, result)
    prior,           \* call -> what earlier calls had returned when it started
    stats,           \* fp.stats counters
    reg,             \* call -> the counter value its pending ++ has read
    \* ---- MemoryCache
    cache,           \* key -> CacheItem, for the stored keys
    now,             \* the clock
    stopCh,          \* c.stopCh: "open" | "closed"
    \* ---- FrameProcessor.Shutdown and main's shutdown sequence, per caller
    fpRet,           \* what FrameProcessor.Shutdown did: "none" | "nil" | "error" | "panic"
    mainRet,         \* what main's own cache.Close() did: "none" | "nil" | "panic"
    \* ---- a client of the Cache interface
    hist,            \* the calls it has made, in order, with what each returned
    \* ---- goroutines inside MemoryCache.Get, and the writers beside them
    gpc,             \* getter -> "idle" | "check" | "delete" | "touch"
    gkey,            \* getter -> the key of its call
    gitem,           \* getter -> the *CacheItem its lookup returned
    gstale,          \* getter -> whether the map has since replaced or dropped that item
    gret,            \* getter -> what its last call returned
    gops,            \* calls started on this cache
    \* ---- RateLimiter
    clock,           \* time.Now(), in ticks
    stepped,         \* the steps the clock has taken (each at most once)
    clients,         \* rl.clients: client IP -> bucket (its index in buckets)
    buckets,         \* every ClientBucket made so far: [tokens, lastUpdate]
    lpc,             \* thread -> "idle" | "bucket" (between the two locks)
    lbkt,            \* thread -> the bucket its lookup returned
    lcfg,            \* thread -> (rps, burst) of its call
    lhist,           \* the allow calls that returned, in order
    \* ---- one websocket session (HandleWebSocket)
    rpc,             \* read loop: "select" | "read" | "handle" | "returned" | "panicked"
    readLog,         \* the types of the messages read so far, in order
    ppc,             \* pingRoutine: "select" | "lock" | "write" | "exited" | "panicked"
    tpc,             \* frame -> its goroutine: "none" | "spawned" | "processing" | "send" | "done"
    pfOrder,         \* the frames in the order their ProcessFrame calls began
    pfRet,           \* frame -> what ProcessFrame returned for it (NotReturned before)
    todo,            \* task -> the messages it has still to send, in order
    writeMu,         \* the task that holds writeMu, or NoTask
    writing,         \* the tasks inside a write on the connection
    sent,            \* the messages written to the socket, in order
    doneClosed,      \* how many times close(done) ran
    connOK,          \* whether reads and writes on the connection succeed
    tickerOn,        \* whether the ping ticker still runs
    crashed,         \* whether a panic has left a goroutine with no recover
    \* ---- one Client.AnalyzeFrame call
    apc,             \* "idle" | "loop" | "request" | "returned"
    attempt,         \* the loop variable
    lastErr,         \* the error of the last failed attempt ("nil" before)
    requests,        \* HTTP requests issued to the inference service
    tried,           \* what each executeAnalysisRequest did, in order
    aret,            \* what AnalyzeFrame returned: "none" | "result" | "error"
    \* ---- main and the background goroutines
    mainpc,          \* main: "serving" | "fp" | "cache" | "exited"
    cleanupOn,       \* whether rl.cleanup, the reaper's ticker, still runs
    pending,         \* ticker -> whether a tick waits in its channel (capacity 1)
    bpc,             \* background goroutine -> "loop" | "exited"
    \* ---- PriorityQueue
    pqItems,         \* pq.items: [id, priority], id numbering the pushes
    pushed,          \* Push calls made
    popped,          \* what the Pop calls returned, in order (PQNil: nil)
    \* ---- one generateFeedback call
    fbScores,        \* the scores of its argument (NoScores before the call)
    fbOut            \* the list it returned

qvars == << items, itemsClosed, shutdownClosed, isRunning, wpc, wItem, wPanics,
            started, inFlight, sdpc, sdResult, atShutdown >>
svars == << sink, written, outcome >>
pvars == << pc, req, ret, path, enq, simSet, resSet, prior, stats, reg >>
cvars == << cache, now >>
avars == << stopCh, fpRet, mainRet, hist >>
gvars == << gpc, gkey, gitem, gstale, gret, gops >>
lvars == << clock, stepped, clients, buckets, lpc, lbkt, lcfg, lhist >>
wvars == << rpc, readLog, ppc, tpc, pfOrder, pfRet, todo, writeMu, writing, sent,
            doneClosed, connOK, tickerOn, crashed >>
nvars == << apc, attempt, lastErr, requests, tried, aret >>
bvars == << mainpc, cleanupOn, pending, bpc >>
kvars == << pqItems, pushed, popped >>
uvars == << fbScores, fbOut >>
yvars == << nvars, bvars, kvars, uvars >>
xvars == << gvars, lvars, wvars, yvars >>
fvars == << qvars, svars, pvars, cvars, avars >>
vars == << fvars, xvars >>

NoScores == << >>
NoReq == [image |-> "", client |-> ""]
NoKey == << "none" >>
NoOut == << "none" >>
NoItem == << "nil" >>
NoRet == [kind |-> "none", at |-> 0]
NoEnq == [stoppedAtCall |-> FALSE, result |-> "none"]
\* The value of pfRet for a frame whose ProcessFrame call has not returned.
NotReturned == ProcessingResult(NoAnalysis, "not returned")
NoPrior == [seen |-> FALSE, value |-> ZeroResult, dup |-> FALSE]

\* NewFrameProcessor / NewProcessingQueue / NewMemoryCache
Init ==
    /\ items = <<>>
    /\ itemsClosed = 0
    /\ shutdownClosed = 0
    /\ isRunning = TRUE
    /\ wpc = [w \in Workers |-> "select"]
    /\ wItem = [w \in Workers |-> 0]
    /\ wPanics = [w \in Workers |-> FALSE]
    /\ started = NumWorkers
    /\ inFlight = 0
    /\ sdpc = [s \in ShutdownCallers |-> "idle"]
    /\ sdResult = [s \in ShutdownCallers |-> "none"]
    /\ atShutdown = {}
    /\ sink = [c \in Calls |-> <<>>]
    /\ written = [c \in Calls |-> 0]
    /\ outcome = [c \in Calls |-> "none"]
    /\ pc = [c \in Calls |-> "idle"]
    /\ req = [c \in Calls |-> NoReq]
    /\ ret = [c \in Calls |-> NoRet]
    /\ path = [c \in Calls |-> "none"]
    /\ enq = [c \in Calls |-> NoEnq]
    /\ simSet = [c \in Calls |-> "none"]
    /\ resSet = [c \in Calls |-> "none"]
    /\ prior = [c \in Calls |-> NoPrior]
    /\ stats = [total |-> 0, success |-> 0, failed |-> 0]
    /\ reg = [c \in Calls |-> 0]
    /\ cache = [k \in {} |-> 0]
    /\ now = 0
    /\ stopCh = "open"
    /\ fpRet = [s \in ShutdownCallers |-> "none"]
    /\ mainRet = [s \in ShutdownCallers |-> "none"]
    /\ hist = <<>>
    /\ gpc = [g \in Getters |-> "idle"]
    /\ gkey = [g \in Getters |-> NoKey]
    /\ gitem = [g \in Getters |-> NoItem]
    /\ gstale = [g \in Getters |-> FALSE]
    /\ gret = [g \in Getters |-> NoOut]
    /\ gops = 0
    /\ clock = 0
    /\ stepped = {}
    /\ clients = [ip \in {} |-> 0]
    /\ buckets = <<>>
    /\ lpc = [t \in LimiterThreads |-> "idle"]
    /\ lbkt = [t \in LimiterThreads |-> 0]
    /\ lcfg = [t \in LimiterThreads |-> DefaultConfig]
    /\ lhist = <<>>
    /\ rpc = "select"
    /\ readLog = <<>>
    /\ ppc = "select"
    /\ tpc = [f \in Frames |-> "none"]
    /\ pfOrder = <<>>
    /\ pfRet = [f \in Frames |-> NotReturned]
    /\ todo = [t \in SessionTasks |-> <<>>]
    /\ writeMu = NoTask
    /\ writing = {}
    /\ sent = <<>>
    /\ doneClosed = 0
    /\ connOK = TRUE
    /\ tickerOn = TRUE
    /\ crashed = FALSE
    /\ apc = "idle"
    /\ attempt = 0
    /\ lastErr = "nil"
    /\ requests = 0
    /\ tried = <<>>
    /\ aret = "none"
    /\ mainpc = "serving"
    /\ cleanupOn = TRUE
    /\ pending = [t \in BackgroundTasks |-> FALSE]
    /\ bpc = [t \in BackgroundTasks |-> "loop"]
    /\ pqItems = <<>>
    /\ pushed = 0
    /\ popped = <<>>
    /\ fbScores = NoScores
    /\ fbOut = <<>>

\* ------------------------------------------------------------ MemoryCache
\* CacheItem{Value, ExpiresAt, LastUsed, AccessCount} as Set, SetWithTTL and the
\* counter operations create it.
CacheItem(v, ttl) ==
    [value |-> v, expiresAt |-> now + ttl, lastUsed |-> now, accessCount |-> 1]

\* time.Now().After(item.ExpiresAt)
Expired(item) == now > item.expiresAt

\* MemoryCache.evictLRU: the keys the scan can end on, those whose LastUsed no
\* other entry precedes (the map is walked in an unspecified order).
evictLRU(m) ==
    { k \in DOMAIN m : \A j \in DOMAIN m : m[k].lastUsed <= m[j].lastUsed }

\* An eviction that waits until the ceiling is exceeded.
Victims_Late(m) ==
    IF Cardinality(DOMAIN m) > CacheMaxSize /\ DOMAIN m # {}
    THEN evictLRU(m) ELSE { NoKey }

\* What Set and SetWithTTL may evict before they insert: nothing (NoKey) below
\* the ceiling, one of the oldest entries at or above it.
Victims(m) ==
    IF Cardinality(DOMAIN m) >= CacheMaxSize /\ DOMAIN m # {}
    THEN evictLRU(m) ELSE { NoKey }

\* MemoryCache.SetWithTTL (Set is SetWithTTL with the cache's own ttl).
SetWithTTL(m, k, v, ttl, victim) ==
    LET kept == DOMAIN m \ { victim }
    IN  [ j \in kept \cup { k } |-> IF j = k THEN CacheItem(v, ttl) ELSE m[j] ]

\* MemoryCache.Exists
Exists(m, k) == k \in DOMAIN m /\ ~Expired(m[k])

\* MemoryCache.Get, the error it returns: nil on a live entry.
GetHit(m, k) == k \in DOMAIN m /\ ~Expired(m[k])

\* MemoryCache.Get, the map it leaves: an expired entry is deleted, a live one
\* has its LastUsed set and its AccessCount counted up.
GetCache(m, k) ==
    IF k \notin DOMAIN m THEN m
    ELSE IF Expired(m[k]) THEN [ j \in DOMAIN m \ { k } |-> m[j] ]
    ELSE [ m EXCEPT ![k].lastUsed = now, ![k].accessCount = @ + 1 ]

\* MemoryCache.Get, what it leaves in dest: the stored value only when dest is
\* a *interface{}; any other pointer keeps what it held.
GetDest(m, k, destKind, held) ==
    IF destKind = "*interface{}" THEN m[k].value ELSE held

\* MemoryCache.Close with a guard: a closed cache is left as it is.
CloseOutcome_Guarded(ch) == "nil"

\* MemoryCache.Close (RedisCache.Close is the same code): cleanup.Stop(), then
\* close(c.stopCh) with nothing that remembers an earlier Close; closing a
\* closed channel panics.
CloseOutcome(ch) == IF ch = "open" THEN "nil" ELSE "panic"

\* Values a client stores: a string, or the int64 of a counter.
StrVal(x) == << "str", x >>
IntVal(n) == << "int", n >>
\* What a dest holds before Get: a nil interface, or the zero value of its type.
Held(destKind) == IF destKind = "*interface{}" THEN << "nil" >> ELSE << "zero" >>

\* MemoryCache.Delete
Delete(m, k) == [ j \in DOMAIN m \ { k } |-> m[j] ]

\* MemoryCache.GetTTL: ErrCacheMiss on an absent or expired entry, else
\* time.Until(item.ExpiresAt).
GetTTL(m, k) ==
    IF k \in DOMAIN m /\ ~Expired(m[k]) THEN << "ttl", m[k].expiresAt - now >>
    ELSE NoOut

\* A counter step that stores 1 whatever the entry holds.
IncrementValue_Reset(v) == << "int", 1 >>

\* Increment / IncrementWithTTL on a present entry: count + 1 when the value
\* is an int64, else 1.
IncrementValue(v) == IF v[1] = "int" THEN << "int", v[2] + 1 >> ELSE << "int", 1 >>

\* MemoryCache.Increment, the map it leaves: a missing key is inserted with 1
\* (no eviction), an expired entry is reset to 1 with a new expiry, a live
\* one is counted up, its LastUsed set and its AccessCount counted up.
Increment(m, k) ==
    IF k \notin DOMAIN m
    THEN [ j \in DOMAIN m \cup { k } |-> IF j = k THEN CacheItem(IntVal(1), CacheTTL) ELSE m[j] ]
    ELSE IF Expired(m[k]) THEN [ m EXCEPT ![k] = CacheItem(IntVal(1), CacheTTL) ]
    ELSE [ m EXCEPT ![k].value = IncrementValue(@), ![k].lastUsed = now,
                    ![k].accessCount = @ + 1 ]

\* MemoryCache.IncrementWithTTL, the map it leaves: a missing key is inserted
\* with 1 (no eviction); a present entry, expired or not, is counted up and
\* given the new expiry.
IncrementWithTTL(m, k, ttl) ==
    IF k \notin DOMAIN m
    THEN [ j \in DOMAIN m \cup { k } |-> IF j = k THEN CacheItem(IntVal(1), ttl) ELSE m[j] ]
    ELSE [ m EXCEPT ![k] = [ value |-> IncrementValue(@.value),
                             expiresAt |-> now + ttl, lastUsed |-> now,
                             accessCount |-> @.accessCount + 1 ] ]

\* MemoryCache.GetStats: len(c.items) and the number of expired entries.
GetStats(m) ==
    << "stats", Cardinality(DOMAIN m), Cardinality({ k \in DOMAIN m : Expired(m[k]) }) >>

\* MemoryCache.cleanupExpired, one tick of the ticker.
cleanupExpired(m) ==
    LET live == { k \in DOMAIN m : ~Expired(m[k]) } IN [ k \in live |-> m[k] ]

\* One call of the Cache interface as the client saw it.
Call(op, k, arg, err, out, victim) ==
    [ op |-> op, key |-> k, arg |-> arg, t |-> now, err |-> err, out |-> out,
      evicted |-> victim ]

\* A call is made and returns: the cache is left as the method leaves it.
Returns(m, rec) ==
    /\ Len(hist) < MaxOps
    /\ cache' = m
    /\ hist' = Append(hist, rec)
    /\ UNCHANGED << xvars, qvars, svars, pvars, now, stopCh, fpRet, mainRet >>

\* cache.Set(ctx, k, v)
CallSet(k, v, victim) ==
    /\ victim \in Victims(cache)
    /\ Returns(SetWithTTL(cache, k, v, CacheTTL, victim),
               Call("set", k, << v, CacheTTL >>, "nil", NoOut, victim))

\* cache.SetWithTTL(ctx, k, v, ttl)
CallSetWithTTL(k, v, ttl, victim) ==
    /\ victim \in Victims(cache)
    /\ Returns(SetWithTTL(cache, k, v, ttl, victim),
               Call("set_with_ttl", k, << v, ttl >>, "nil", NoOut, victim))

\* cache.Get(ctx, k, dest)
CallGet(k, destKind) ==
    Returns(GetCache(cache, k),
            IF GetHit(cache, k)
            THEN Call("get", k, destKind, "nil",
                      GetDest(cache, k, destKind, Held(destKind)), NoKey)
            ELSE Call("get", k, destKind, "miss", Held(destKind), NoKey))

\* cache.Exists(ctx, k)
CallExists(k) ==
    Returns(cache, Call("exists", k, NoOut, "nil", << "bool", Exists(cache, k) >>, NoKey))

\* cache.Delete(ctx, k)
CallDelete(k) ==
    Returns(Delete(cache, k), Call("delete", k, NoOut, "nil", NoOut, NoKey))

\* cache.GetTTL(ctx, k)
CallGetTTL(k) ==
    Returns(cache, Call("ttl", k, NoOut,
                        IF GetTTL(cache, k) = NoOut THEN "miss" ELSE "nil",
                        GetTTL(cache, k), NoKey))

\* cache.Increment(ctx, k)
CallIncrement(k) ==
    Returns(Increment(cache, k),
            Call("increment", k, NoOut, "nil", Increment(cache, k)[k].value, NoKey))

\* cache.IncrementWithTTL(ctx, k, ttl)
CallIncrementWithTTL(k, ttl) ==
    Returns(IncrementWithTTL(cache, k, ttl),
            Call("increment_with_ttl", k, ttl, "nil",
                 IncrementWithTTL(cache, k, ttl)[k].value, NoKey))

\* cache.GetStats(ctx)
CallGetStats ==
    Returns(cache, Call("stats", NoKey, NoOut, "nil", GetStats(cache), NoKey))

\* cache.Close()
CallClose ==
    /\ Len(hist) < MaxOps
    /\ hist' = Append(hist, Call("close", NoKey, NoOut, CloseOutcome(stopCh), NoOut, NoKey))
    /\ stopCh' = "closed"
    /\ UNCHANGED << xvars, qvars, svars, pvars, cvars, fpRet, mainRet >>

\* Time passes.
Tick ==
    /\ now < MaxTime
    /\ now' = now + 1
    /\ UNCHANGED << xvars, qvars, svars, pvars, cache, avars >>

\* The cleanupExpired goroutine on a tick of its ticker, until Close has
\* stopped it.
Sweep ==
    /\ stopCh = "open"
    /\ cleanupExpired(cache) # cache
    /\ cache' = cleanupExpired(cache)
    /\ UNCHANGED << xvars, qvars, svars, pvars, now, avars >>

\* A client of the Cache interface on a cache of its own, with the clock and
\* the sweeper.
NextCache ==
    \/ \E k \in APIKeys : \E v \in Victims(cache) : CallSet(k, StrVal("v"), v)
    \/ \E k \in APIKeys : \E v \in Victims(cache) : CallSetWithTTL(k, StrVal("v"), LongTTL, v)
    \/ \E k \in APIKeys, d \in DestKinds : CallGet(k, d)
    \/ \E k \in APIKeys : CallExists(k)
    \/ \E k \in APIKeys : CallDelete(k)
    \/ \E k \in APIKeys : CallGetTTL(k)
    \/ \E k \in APIKeys : CallIncrement(k)
    \/ \E k \in APIKeys : CallIncrementWithTTL(k, LongTTL)
    \/ CallGetStats
    \/ CallClose
    \/ Tick
    \/ Sweep

SpecCache == Init /\ [][NextCache]_vars

\* ------------------------------------------ MemoryCache.Get, step by step
\* Get takes the lock three times: RLock for the lookup, then, with no lock
\* held, the test of item.ExpiresAt, then Lock for the delete or for the
\* update of LastUsed and AccessCount.

\* Get, the lookup under RLock: ErrCacheMiss when the key is absent, else the
\* goroutine leaves the lock holding the *CacheItem.
GetLookup(g, k) ==
    /\ gpc[g] = "idle"
    /\ gops < MaxGetOps
    /\ gops' = gops + 1
    /\ gkey' = [gkey EXCEPT ![g] = k]
    /\ IF k \in DOMAIN cache
       THEN /\ gpc' = [gpc EXCEPT ![g] = "check"]
            /\ gitem' = [gitem EXCEPT ![g] = cache[k]]
            /\ gstale' = [gstale EXCEPT ![g] = FALSE]
            /\ gret' = [gret EXCEPT ![g] = NoOut]
       ELSE /\ gret' = [gret EXCEPT ![g] = << "miss" >>]
            /\ UNCHANGED << gpc, gitem, gstale >>
    /\ UNCHANGED << yvars, fvars, lvars, wvars >>

\* Get, time.Now().After(item.ExpiresAt) on the item it holds.
GetCheck(g) ==
    /\ gpc[g] = "check"
    /\ gpc' = [gpc EXCEPT ![g] = IF Expired(gitem[g]) THEN "delete" ELSE "touch"]
    /\ UNCHANGED << yvars, fvars, lvars, wvars, gkey, gitem, gstale, gret, gops >>

\* Get, the expired branch: Lock, delete(c.items, key), Unlock, ErrCacheMiss.
\* The delete is by key: it removes whatever the map holds for it by then.
GetDelete(g) ==
    /\ gpc[g] = "delete"
    /\ cache' = Delete(cache, gkey[g])
    /\ gret' = [gret EXCEPT ![g] = << "miss" >>]
    /\ gpc' = [gpc EXCEPT ![g] = "idle"]
    /\ UNCHANGED << yvars, lvars, wvars, qvars, svars, pvars, now, avars, gkey, gitem, gstale, gops >>

\* Get, the live branch: Lock, item.LastUsed and item.AccessCount written
\* through the pointer (the map sees it only while it still holds that item),
\* Unlock, *dest = item.Value, nil.
GetTouch(g) ==
    /\ gpc[g] = "touch"
    /\ cache' = IF gstale[g] THEN cache
                ELSE [ cache EXCEPT ![gkey[g]].lastUsed = now,
                                    ![gkey[g]].accessCount = @ + 1 ]
    /\ gret' = [gret EXCEPT ![g] = << "hit", gitem[g].value >>]
    /\ gpc' = [gpc EXCEPT ![g] = "idle"]
    /\ UNCHANGED << yvars, lvars, wvars, qvars, svars, pvars, now, avars, gkey, gitem, gstale, gops >>

\* The items a write takes out of the map are no longer those the getters hold.
Detach(keys) ==
    [ g \in Getters |-> gstale[g] \/ (gpc[g] # "idle" /\ gkey[g] \in keys) ]

\* Set / SetWithTTL by another goroutine, whole under Lock.
WriterSet(k, v, ttl, victim) ==
    /\ gops < MaxGetOps
    /\ gops' = gops + 1
    /\ victim \in Victims(cache)
    /\ cache' = SetWithTTL(cache, k, v, ttl, victim)
    /\ gstale' = Detach({ k, victim })
    /\ UNCHANGED << yvars, lvars, wvars, qvars, svars, pvars, now, avars, gpc, gkey, gitem, gret >>

\* Delete by another goroutine, whole under Lock.
WriterDelete(k) ==
    /\ gops < MaxGetOps
    /\ gops' = gops + 1
    /\ k \in DOMAIN cache
    /\ cache' = Delete(cache, k)
    /\ gstale' = Detach({ k })
    /\ UNCHANGED << yvars, lvars, wvars, qvars, svars, pvars, now, avars, gpc, gkey, gitem, gret >>

\* The cleanupExpired goroutine beside them.
WriterSweep ==
    /\ cleanupExpired(cache) # cache
    /\ cache' = cleanupExpired(cache)
    /\ gstale' = Detach(DOMAIN cache \ DOMAIN cleanupExpired(cache))
    /\ UNCHANGED << yvars, lvars, wvars, qvars, svars, pvars, now, avars, gpc, gkey, gitem, gret, gops >>

\* Goroutines in Get beside goroutines that set and delete, on one cache.
NextGet ==
    \/ \E g \in Getters, k \in APIKeys : GetLookup(g, k)
    \/ \E g \in Getters : GetCheck(g)
    \/ \E g \in Getters : GetDelete(g)
    \/ \E g \in Getters : GetTouch(g)
    \/ \E k \in APIKeys : \E v \in Victims(cache) :
           \E x \in { "v", "w" } : WriterSet(k, StrVal(x), CacheTTL, v)
    \/ \E k \in APIKeys : \E v \in Victims(cache) : WriterSet(k, StrVal("v"), LongTTL, v)
    \/ \E k \in APIKeys : WriterDelete(k)
    \/ WriterSweep
    \/ Tick

SpecGet == Init /\ [][NextGet]_vars

\* ------------------------------------------------------------ RateLimiter
\* A bucket's tokens without the ceiling.
Clamp_None(tokens, burst) == tokens

\* ClientBucket.allowRequest: if cb.tokens > burst { cb.tokens = burst }
Clamp(tokens, burst) == IF tokens > burst THEN burst ELSE tokens

\* A refill of one token per second whatever the rate.
TokensToAdd_Unscaled(elapsed, rps) == elapsed \div TicksPerSecond

\* ClientBucket.allowRequest: int(elapsed.Seconds() * float64(rps))
TokensToAdd(elapsed, rps) == (elapsed * rps) \div TicksPerSecond

\* ClientBucket.allowRequest, the tokens after the refill and the ceiling.
Refilled(b, cfg) ==
    Clamp(b.tokens + TokensToAdd(clock - b.lastUpdate, cfg.rps), cfg.burst)

\* ClientBucket.allowRequest, the bucket it leaves: lastUpdate is always set
\* to now, one token is taken when there is one.
BucketAfter(b, cfg) ==
    [ tokens |-> IF Refilled(b, cfg) > 0 THEN Refilled(b, cfg) - 1 ELSE Refilled(b, cfg),
      lastUpdate |-> clock ]

\* RateLimiter.allowRequestWithConfig, under rl.mutex: the client's bucket is
\* looked up, or made full and stored; the lock is released before the
\* bucket is used.
AllowLookup(t, ip, cfg) ==
    /\ lpc[t] = "idle"
    /\ lpc' = [lpc EXCEPT ![t] = "bucket"]
    /\ lcfg' = [lcfg EXCEPT ![t] = cfg]
    /\ IF ip \in DOMAIN clients
       THEN /\ lbkt' = [lbkt EXCEPT ![t] = clients[ip]]
            /\ UNCHANGED << clients, buckets >>
       ELSE /\ buckets' = Append(buckets, [tokens |-> cfg.burst, lastUpdate |-> clock])
            /\ clients' = [ j \in DOMAIN clients \cup { ip } |->
                              IF j = ip THEN Len(buckets) + 1 ELSE clients[j] ]
            /\ lbkt' = [lbkt EXCEPT ![t] = Len(buckets) + 1]
    /\ UNCHANGED << yvars, fvars, gvars, wvars, clock, stepped, lhist >>

\* ClientBucket.allowRequest, under the bucket's mutex, on the bucket the
\* lookup returned.
AllowBucket(t) ==
    /\ lpc[t] = "bucket"
    /\ lpc' = [lpc EXCEPT ![t] = "idle"]
    /\ buckets' = [buckets EXCEPT ![lbkt[t]] = BucketAfter(@, lcfg[t])]
    /\ lhist' = Append(lhist, [ t |-> clock, cfg |-> lcfg[t],
                                ok |-> Refilled(buckets[lbkt[t]], lcfg[t]) > 0,
                                bucket |-> lbkt[t] ])
    /\ UNCHANGED << yvars, fvars, gvars, wvars, clock, stepped, clients, lbkt, lcfg >>

\* The clients cleanupExpiredClients keeps on a tick of its ticker.
Kept == { ip \in DOMAIN clients : ~(clock - buckets[clients[ip]].lastUpdate > ReapIdle) }

\* RateLimiter.cleanupExpiredClients, one tick, under rl.mutex.
Reap ==
    /\ Kept # DOMAIN clients
    /\ clients' = [ ip \in Kept |-> clients[ip] ]
    /\ UNCHANGED << yvars, fvars, gvars, wvars, clock, stepped, buckets, lpc, lbkt, lcfg, lhist >>

\* Time passes.
Advance(d) ==
    /\ d \notin stepped
    /\ stepped' = stepped \cup { d }
    /\ clock' = clock + d
    /\ UNCHANGED << yvars, fvars, gvars, wvars, clients, buckets, lpc, lbkt, lcfg, lhist >>

\* Calls that have started.
AllowsStarted == Len(lhist) + Cardinality({ t \in LimiterThreads : lpc[t] = "bucket" })

\* Requests of one client on overlapping goroutines, through both kinds of
\* route, with the reaper.
NextLimiter ==
    \/ \E t \in LimiterThreads, ip \in ClientIPs, cfg \in LimitConfigs :
           AllowsStarted < MaxAllows /\ AllowLookup(t, ip, cfg)
    \/ \E t \in LimiterThreads : AllowBucket(t)
    \/ Reap
    \/ \E d \in LongSteps : Advance(d)

SpecLimiter == Init /\ [][NextLimiter]_vars

\* One client whose requests come one after the other through RateLimit().
NextScenario ==
    \/ \E ip \in ClientIPs :
           AllowsStarted < ScenarioCalls /\ AllowLookup("t1", ip, DefaultConfig)
    \/ AllowBucket("t1")
    \/ Reap
    \/ \E d \in TimeSteps : Advance(d)

SpecScenario == Init /\ [][NextScenario]_vars

\* The clock moves on by one tick, half the time a token takes at the default
\* rate, within the first second.
ClockTick ==
    /\ clock < TicksPerSecond
    /\ clock' = clock + 1
    /\ UNCHANGED << yvars, fvars, gvars, wvars, stepped, clients, buckets, lpc, lbkt,
                    lcfg, lhist >>

\* One client that asks again and again, at intervals shorter than the time
\* a token takes.
NextPolling ==
    \/ \E ip \in ClientIPs :
           AllowsStarted < ScenarioCalls /\ AllowLookup("t1", ip, DefaultConfig)
    \/ AllowBucket("t1")
    \/ ClockTick

SpecPolling == Init /\ [][NextPolling]_vars

\* --------------------------------------------------------- ProcessingQueue
\* A result channel made without a buffer.
ResultChanCapacity_Unbuffered == 1 - 1

\* resultChan := make(chan *ProcessingResult, 1)
ResultChanCapacity == 1

\* Enqueue without the isRunning check.
EnqueueSeesRunning_NoCheck == TRUE

\* ProcessingQueue.Enqueue, first half: the read of isRunning under RLock.
EnqueueSeesRunning == isRunning

\* Enqueue with a send that always goes through (an unbounded buffer).
EnqueueHasRoom_Unbounded == TRUE

\* ProcessingQueue.Enqueue, second half: whether the select's send case can
\* proceed (room in the buffer).
EnqueueHasRoom == Len(items) < QueueCapacity

\* ProcessingQueue.worker: a worker at its select takes the head of pq.items.
WorkerDequeue(w) ==
    /\ wpc[w] = "select"
    /\ items # <<>>
    /\ wpc' = [wpc EXCEPT ![w] = "handling"]
    /\ wItem' = [wItem EXCEPT ![w] = Head(items)]
    /\ items' = Tail(items)
    /\ inFlight' = inFlight + 1
    /\ UNCHANGED << avars, xvars >>
    /\ UNCHANGED << itemsClosed, shutdownClosed, isRunning, wPanics, started,
                    sdpc, sdResult, atShutdown, svars, pvars, cvars >>

\* ProcessingQueue.worker: case <-pq.shutdown: return (and the deferred wg.Done).
WorkerExit(w) ==
    /\ wpc[w] = "select"
    /\ shutdownClosed > 0
    /\ wpc' = [wpc EXCEPT ![w] = "exited"]
    /\ UNCHANGED << avars, xvars >>
    /\ UNCHANGED << items, itemsClosed, shutdownClosed, isRunning, wItem, wPanics,
                    started, inFlight, sdpc, sdResult, atShutdown, svars, pvars, cvars >>

\* FrameProcessor.processFrame: the result it sends for what AnalyzeFrame did.
\* A panic is recovered by processFrame's own deferred function.
processFrameResult(o) ==
    CASE o.kind = "ok" ->
           LET a == convertMLResponse(o.scores)
           IN  ProcessingResult([a EXCEPT !.feedback = generateFeedback(a)], "none")
      [] o.kind = "nil" -> ProcessingResult(DefaultAnalysis, "none")
      [] o.kind = "err" -> ProcessingResult(NoAnalysis, "ml analysis failed")
      [] o.kind = "panic" -> ProcessingResult(NoAnalysis, "processing failed")

\* Whether a panic leaves processFrame: its deferred recover catches every one.
processFrameEscapes(o) == FALSE

\* processFrame returning on a nil analysis without sending anything.
handlerSends_NilSilent(o) ==
    IF o.kind = "nil" \/ (o.kind = "panic" /\ processFrameEscapes(o)) THEN <<>>
    ELSE << processFrameResult(o) >>

\* What the handler itself sends on the sink: one result, unless a panic left it.
handlerSends(o) ==
    IF o.kind = "panic" /\ processFrameEscapes(o) THEN <<>>
    ELSE << processFrameResult(o) >>

\* ProcessingQueue.worker's own recover: reached only by a panic that left the
\* handler; the send is non-blocking, dropped when the sink is full.
workerRecover(escaped, buf) ==
    IF escaped /\ Len(buf) < ResultChanCapacity
    THEN Append(buf, ProcessingResult(NoAnalysis, "worker panic"))
    ELSE buf

\* A worker without the recover: a panic ends the goroutine.
workerAfterHandler_NoRecover(panicked) == IF panicked THEN "dead" ELSE "select"

\* Where the worker goroutine goes when the handler is over: the recover in
\* the worker's closure keeps it in its for loop, panic or not.
workerAfterHandler(panicked) == "select"

\* ProcessingQueue.worker running pq.workerFunc(item) = processFrame(item):
\* AnalyzeFrame is invoked, one result is sent on the item's ResultChan (a
\* blocking send on the buffered channel), and the worker returns to its
\* select.
WorkerHandle(w, o) ==
    LET c == wItem[w]
        escaped == o.kind = "panic" /\ processFrameEscapes(o)
        buf == workerRecover(escaped, sink[c] \o handlerSends(o))
    IN  /\ wpc[w] = "handling"
        /\ Len(sink[c]) + Len(handlerSends(o)) <= ResultChanCapacity
        /\ sink' = [sink EXCEPT ![c] = buf]
        /\ written' = [written EXCEPT ![c] = @ + Len(buf) - Len(sink[c])]
        /\ outcome' = [outcome EXCEPT ![c] = o.kind]
        /\ wpc' = [wpc EXCEPT ![w] = workerAfterHandler(o.kind = "panic")]
        /\ wItem' = [wItem EXCEPT ![w] = 0]
        /\ wPanics' = [wPanics EXCEPT ![w] = @ \/ o.kind = "panic"]
        /\ inFlight' = inFlight - 1
        /\ UNCHANGED << avars, xvars >>
        /\ UNCHANGED << items, itemsClosed, shutdownClosed, isRunning, started,
                        sdpc, sdResult, atShutdown, pvars, cvars >>

\* Shutdown without the isRunning guard.
ShutdownGuard_Always == TRUE

\* ProcessingQueue.Shutdown, under pq.mutex: return nil when not running, else
\* clear isRunning.
ShutdownGuard == isRunning

ShutdownBegin(s) ==
    /\ sdpc[s] = "idle"
    /\ IF ShutdownGuard
       THEN /\ isRunning' = FALSE
            /\ sdpc' = [sdpc EXCEPT ![s] = "close"]
            /\ atShutdown' = { wItem[w] : w \in { x \in Workers : wpc[x] = "handling" } }
            /\ UNCHANGED sdResult
       ELSE /\ sdpc' = [sdpc EXCEPT ![s] = "returned"]
            /\ sdResult' = [sdResult EXCEPT ![s] = "nil"]
            /\ UNCHANGED << isRunning, atShutdown >>
    /\ UNCHANGED << avars, xvars >>
    /\ UNCHANGED << items, itemsClosed, shutdownClosed, wpc, wItem, wPanics,
                    started, inFlight, svars, pvars, cvars >>

\* ProcessingQueue.Shutdown: close(pq.shutdown).
ShutdownSignal(s) ==
    /\ sdpc[s] = "close"
    /\ shutdownClosed' = shutdownClosed + 1
    /\ sdpc' = [sdpc EXCEPT ![s] = "wait"]
    /\ UNCHANGED << avars, xvars >>
    /\ UNCHANGED << items, itemsClosed, isRunning, wpc, wItem, wPanics, started,
                    inFlight, sdResult, atShutdown, svars, pvars, cvars >>

\* Shutdown that does not wait for the workers.
AllWorkersDone_NoWait == TRUE

\* wg.Wait() has returned: every worker ran its deferred wg.Done.
AllWorkersDone == \A w \in Workers : wpc[w] = "exited"

\* ProcessingQueue.Shutdown: case <-done: close(pq.items); return nil.
ShutdownDrained(s) ==
    /\ sdpc[s] = "wait"
    /\ AllWorkersDone
    /\ itemsClosed' = itemsClosed + 1
    /\ sdpc' = [sdpc EXCEPT ![s] = "returned"]
    /\ sdResult' = [sdResult EXCEPT ![s] = "nil"]
    /\ UNCHANGED << avars, xvars >>
    /\ UNCHANGED << items, shutdownClosed, isRunning, wpc, wItem, wPanics, started,
                    inFlight, atShutdown, svars, pvars, cvars >>

\* ProcessingQueue.Shutdown: case <-time.After(timeout): close(pq.items);
\* return an error.
ShutdownTimeout(s) ==
    /\ sdpc[s] = "wait"
    /\ itemsClosed' = itemsClosed + 1
    /\ sdpc' = [sdpc EXCEPT ![s] = "returned"]
    /\ sdResult' = [sdResult EXCEPT ![s] = "timeout"]
    /\ UNCHANGED << avars, xvars >>
    /\ UNCHANGED << items, shutdownClosed, isRunning, wpc, wItem, wPanics, started,
                    inFlight, atShutdown, svars, pvars, cvars >>

\* ------------------------------------------------------- FrameProcessor
\* What a call starting now with (img, cl) follows:
\*   seen, value: the first call made with the same pair has returned
\*     successfully, with this value, no longer than the cache TTL ago;
\*   dup: the image was submitted exactly once before, by another client, and
\*     that submission has returned the inference service's answer.
PriorOf(c, img, cl) ==
    LET same == { d \in Calls : d < c /\ req[d] = [image |-> img, client |-> cl] }
        first == CHOOSE x \in same : \A y \in same : x <= y
        earlier == { d \in Calls : d < c /\ req[d].image = img }
        once == CHOOSE x \in earlier : TRUE
        hit == /\ same # {}
               /\ pc[first] = "done" /\ ret[first].kind = "ok"
               /\ now - ret[first].at <= CacheTTL
    IN  [ seen |-> hit,
          value |-> IF hit THEN ret[first].value ELSE ZeroResult,
          dup |-> /\ Cardinality(earlier) = 1
                  /\ req[once].client # cl
                  /\ pc[once] = "done" /\ path[once] = "inference"
                  /\ now - ret[once].at <= SimilarityTTL ]

\* Return without the FailedProcessed++ of the queue-full return.
PathCounter_RejectSilent(via) ==
    CASE via \in { "cache", "inference" } -> "success"
      [] via \in { "failed", "timeout" } -> "failed"
      [] OTHER -> "none"

\* Return without the FailedProcessed++ of the timeout return.
PathCounter_TimeoutSilent(via) ==
    CASE via \in { "cache", "inference" } -> "success"
      [] via \in { "rejected", "failed" } -> "failed"
      [] OTHER -> "none"

\* The counter each return of ProcessFrame increments before it returns:
\* SuccessfullyProcessed++ on a cache hit and on an analysis, FailedProcessed++
\* on a rejected Enqueue, an error result and a timeout, none on the
\* near-duplicate return.
PathCounter(via) ==
    CASE via \in { "cache", "inference" } -> "success"
      [] via \in { "rejected", "failed", "timeout" } -> "failed"
      [] OTHER -> "none"

\* fp.stats.X++ is a plain read followed by a plain write, with no lock held:
\* what the write stores is the value read plus one, whatever the counter
\* holds by then.
CounterAfter(held, read) == read + 1

\* ProcessFrame taking one of its returns: the value and error are fixed, and
\* the counter of that return, if it has one, is read.
Return(c, kind, value, via) ==
    /\ ret' = [ret EXCEPT ![c] = [kind |-> kind, value |-> value, at |-> now]]
    /\ path' = [path EXCEPT ![c] = via]
    /\ IF PathCounter(via) = "none"
       THEN /\ pc' = [pc EXCEPT ![c] = "done"]
            /\ UNCHANGED reg
       ELSE /\ pc' = [pc EXCEPT ![c] = "count"]
            /\ reg' = [reg EXCEPT ![c] = stats[PathCounter(via)]]

\* The type of the dest ProcessFrame hands to cache.Get: &cachedResult.
ProcessFrameDest == "*models.AnalysisResult"

\* ProcessFrame is called: fp.stats.TotalProcessed++ reads the counter.
PFStart(c, img, cl) ==
    /\ pc[c] = "idle"
    /\ \A d \in Calls : d < c => pc[d] # "idle"
    /\ req' = [req EXCEPT ![c] = [image |-> img, client |-> cl]]
    /\ prior' = [prior EXCEPT ![c] = PriorOf(c, img, cl)]
    /\ reg' = [reg EXCEPT ![c] = stats.total]
    /\ pc' = [pc EXCEPT ![c] = "total"]
    /\ UNCHANGED << avars, xvars >>
    /\ UNCHANGED << qvars, svars, ret, path, enq, simSet, resSet, stats, cvars >>

\* fp.stats.TotalProcessed++ writes the counter.
PFCountTotal(c) ==
    /\ pc[c] = "total"
    /\ stats' = [stats EXCEPT !.total = CounterAfter(@, reg[c])]
    /\ reg' = [reg EXCEPT ![c] = 0]
    /\ pc' = [pc EXCEPT ![c] = "lookup"]
    /\ UNCHANGED << avars, xvars >>
    /\ UNCHANGED << qvars, svars, req, ret, path, enq, simSet, resSet, prior, cvars >>

\* ProcessFrame, the cache lookup: the cache key, and
\* fp.cache.Get(fp.ctx, cacheKey, &cachedResult); a nil error returns
\* &cachedResult.
PFLookup(c) ==
    LET k == FrameKey(req[c].image, req[c].client)
    IN  /\ pc[c] = "lookup"
        /\ cache' = GetCache(cache, k)
        /\ IF GetHit(cache, k)
           THEN Return(c, "ok", GetDest(cache, k, ProcessFrameDest, ZeroResult), "cache")
           ELSE /\ pc' = [pc EXCEPT ![c] = "similar"]
                /\ UNCHANGED << ret, path, reg >>
        /\ UNCHANGED << avars, xvars >>
        /\ UNCHANGED << qvars, svars, req, enq, simSet, resSet, prior, stats, now >>

\* isSimilarFrame that never finds a frame similar.
isSimilarFrame_Never(m, img) == FALSE

\* FrameProcessor.isSimilarFrame, its answer.
isSimilarFrame(m, img) == SkipSimilarFrames /\ Exists(m, SimilarityKey(img))

\* ProcessFrame, the similarity check: a frame seen before returns the
\* synthetic result; otherwise isSimilarFrame starts the goroutine that marks
\* the hash, and ProcessFrame builds the queue item and calls Enqueue.
PFSimilar(c) ==
    /\ pc[c] = "similar"
    /\ IF isSimilarFrame(cache, req[c].image)
       THEN /\ Return(c, "ok", getCachedResult, "similar")
            /\ UNCHANGED << simSet, enq >>
       ELSE /\ simSet' = [simSet EXCEPT ![c] = IF SkipSimilarFrames THEN "pending" ELSE @]
            /\ enq' = [enq EXCEPT ![c].stoppedAtCall = ~isRunning]
            /\ pc' = [pc EXCEPT ![c] = "enqueue"]
            /\ UNCHANGED << ret, path, reg >>
    /\ UNCHANGED << avars, xvars >>
    /\ UNCHANGED << qvars, svars, req, resSet, prior, stats, cvars >>

\* ProcessingQueue.Enqueue, the isRunning check; a false return makes
\* ProcessFrame count a failure and return the queue-full error.
PFEnqueueCheck(c) ==
    /\ pc[c] = "enqueue"
    /\ IF EnqueueSeesRunning
       THEN /\ pc' = [pc EXCEPT ![c] = "send"]
            /\ UNCHANGED << enq, ret, path, reg >>
       ELSE /\ enq' = [enq EXCEPT ![c].result = "false"]
            /\ Return(c, "error", "queue full", "rejected")
    /\ UNCHANGED << avars, xvars >>
    /\ UNCHANGED << qvars, svars, req, simSet, resSet, prior, stats, cvars >>

\* ProcessingQueue.Enqueue, the select: a send on the closed channel panics,
\* a send with room is accepted, and the default case returns false.
PFEnqueueSend(c) ==
    /\ pc[c] = "send"
    /\ enq' = [enq EXCEPT ![c].result = IF itemsClosed > 0 THEN "panic"
                                        ELSE IF EnqueueHasRoom THEN "true"
                                        ELSE "false"]
    /\ IF itemsClosed > 0
       THEN /\ pc' = [pc EXCEPT ![c] = "panicked"]
            /\ UNCHANGED << items, ret, path, reg >>
       ELSE IF EnqueueHasRoom
       THEN /\ items' = Append(items, c)
            /\ pc' = [pc EXCEPT ![c] = "await"]
            /\ UNCHANGED << ret, path, reg >>
       ELSE /\ Return(c, "error", "queue full", "rejected")
            /\ UNCHANGED items
    /\ UNCHANGED << avars, xvars >>
    /\ UNCHANGED << itemsClosed, shutdownClosed, isRunning, wpc, wItem, wPanics,
                    started, inFlight, sdpc, sdResult, atShutdown, svars, req,
                    simSet, resSet, prior, stats, cvars >>

\* ProcessFrame, case result := <-resultChan: an error result is a failure,
\* an analysis a success.
PFAwaitResult(c) ==
    /\ pc[c] = "await"
    /\ sink[c] # <<>>
    /\ sink' = [sink EXCEPT ![c] = Tail(@)]
    /\ LET r == Head(sink[c])
       IN  IF r.error # "none"
           THEN Return(c, "error", r.error, "failed")
           ELSE Return(c, "ok", r.analysis, "inference")
    /\ UNCHANGED << avars, xvars >>
    /\ UNCHANGED << qvars, written, outcome, req, enq, simSet, resSet, prior,
                    stats, cvars >>

\* ProcessFrame, case <-time.After(ProcessingTimeout): the sink is abandoned.
PFAwaitTimeout(c) ==
    /\ pc[c] = "await"
    /\ Return(c, "error", "processing timeout", "timeout")
    /\ UNCHANGED << avars, xvars >>
    /\ UNCHANGED << qvars, svars, req, enq, simSet, resSet, prior, stats, cvars >>

\* ProcessFrame, the end of a return that counts: the ++ writes its counter;
\* after an analysis the goroutine that caches it is started; the call returns.
PFCount(c) ==
    /\ pc[c] = "count"
    /\ stats' = [stats EXCEPT ![PathCounter(path[c])] = CounterAfter(@, reg[c])]
    /\ resSet' = [resSet EXCEPT ![c] = IF path[c] = "inference" THEN "pending" ELSE @]
    /\ reg' = [reg EXCEPT ![c] = 0]
    /\ pc' = [pc EXCEPT ![c] = "done"]
    /\ UNCHANGED << avars, xvars >>
    /\ UNCHANGED << qvars, svars, req, ret, path, enq, simSet, prior, cvars >>

\* The goroutine isSimilarFrame started: SetWithTTL(similarityKey, true, 5 min).
AsyncSimilaritySet(c, victim) ==
    /\ simSet[c] = "pending"
    /\ victim \in Victims(cache)
    /\ cache' = SetWithTTL(cache, SimilarityKey(req[c].image), TRUE, SimilarityTTL, victim)
    /\ simSet' = [simSet EXCEPT ![c] = "done"]
    /\ UNCHANGED << avars, xvars >>
    /\ UNCHANGED << qvars, svars, pc, req, ret, path, enq, resSet, prior, stats,
                    reg, now >>

\* The goroutine ProcessFrame started: cache.Set(cacheKey, *result.Analysis).
AsyncResultSet(c, victim) ==
    /\ resSet[c] = "pending"
    /\ victim \in Victims(cache)
    /\ cache' = SetWithTTL(cache, FrameKey(req[c].image, req[c].client),
                           ret[c].value, CacheTTL, victim)
    /\ resSet' = [resSet EXCEPT ![c] = "done"]
    /\ UNCHANGED << avars, xvars >>
    /\ UNCHANGED << qvars, svars, pc, req, ret, path, enq, simSet, prior, stats,
                    reg, now >>

\* FrameProcessor.Shutdown once fp.queue.Shutdown(30 s) has returned: its
\* error is returned as it is; on nil the cache is closed and a Close that
\* returns (it only returns nil) ends the shutdown with nil.
FPShutdownClose(s) ==
    /\ sdpc[s] = "returned" /\ fpRet[s] = "none"
    /\ IF sdResult[s] = "timeout"
       THEN /\ fpRet' = [fpRet EXCEPT ![s] = "error"]
            /\ UNCHANGED stopCh
       ELSE /\ fpRet' = [fpRet EXCEPT ![s] = CloseOutcome(stopCh)]
            /\ stopCh' = "closed"
    /\ UNCHANGED << xvars, qvars, svars, pvars, cvars, mainRet, hist >>

\* main, after server.frameProcessor.Shutdown() has returned (its error is
\* only logged): server.cache.Close() on the cache the processor holds.
MainCacheClose(s) ==
    /\ fpRet[s] \in { "nil", "error" } /\ mainRet[s] = "none"
    /\ mainRet' = [mainRet EXCEPT ![s] = CloseOutcome(stopCh)]
    /\ stopCh' = "closed"
    /\ UNCHANGED << xvars, qvars, svars, pvars, cvars, fpRet, hist >>

\* ProcessingQueue.DrainQueue: empties the buffer, sending each item a
\* cancellation result (non-blocking). No code of the repository calls it, so
\* no next-state relation includes it.
DrainQueue ==
    /\ items # <<>>
    /\ items' = <<>>
    /\ sink' = [c \in Calls |->
                  IF (\E i \in 1..Len(items) : items[i] = c) /\ Len(sink[c]) < ResultChanCapacity
                  THEN Append(sink[c], ProcessingResult(NoAnalysis, "processing cancelled"))
                  ELSE sink[c]]
    /\ written' = [c \in Calls |-> written[c] + Len(sink'[c]) - Len(sink[c])]
    /\ UNCHANGED << avars, xvars >>
    /\ UNCHANGED << itemsClosed, shutdownClosed, isRunning, wpc, wItem, wPanics,
                    started, inFlight, sdpc, sdResult, atShutdown, outcome, pvars, cvars >>

\* The calls made while the queue is being shut down: the first two.
ShutdownCalls == { c \in Calls : c <= 2 }

\* The queue with its callers, workers and Shutdown; the cache stays as it
\* was built (the goroutines that write it are not scheduled), so every call
\* reaches Enqueue.
NextQueue ==
    \/ \E c \in ShutdownCalls : PFStart(c, "B1", "A")
    \/ \E c \in Calls : PFCountTotal(c)
    \/ \E c \in Calls : PFLookup(c)
    \/ \E c \in Calls : PFCount(c)
    \/ \E c \in Calls : PFSimilar(c)
    \/ \E c \in Calls : PFEnqueueCheck(c)
    \/ \E c \in Calls : PFEnqueueSend(c)
    \/ \E c \in Calls : PFAwaitResult(c)
    \/ \E c \in Calls : PFAwaitTimeout(c)
    \/ \E w \in Workers : WorkerDequeue(w)
    \/ \E w \in Workers, o \in QueueOutcomes : WorkerHandle(w, o)
    \/ \E w \in Workers : WorkerExit(w)
    \/ \E s \in ShutdownCallers : ShutdownBegin(s)
    \/ \E s \in ShutdownCallers : ShutdownSignal(s)
    \/ \E s \in ShutdownCallers : ShutdownDrained(s)
    \/ \E s \in ShutdownCallers : ShutdownTimeout(s)

SpecQueue == Init /\ [][NextQueue]_vars

\* The queue while it runs (Shutdown is not called): every call reaches
\* Enqueue, the workers serve them.
NextWorkers ==
    \/ \E c \in Calls : PFStart(c, "B1", "A")
    \/ \E c \in Calls : PFCountTotal(c)
    \/ \E c \in Calls : PFLookup(c)
    \/ \E c \in Calls : PFCount(c)
    \/ \E c \in Calls : PFSimilar(c)
    \/ \E c \in Calls : PFEnqueueCheck(c)
    \/ \E c \in Calls : PFEnqueueSend(c)
    \/ \E c \in Calls : PFAwaitResult(c)
    \/ \E c \in Calls : PFAwaitTimeout(c)
    \/ \E w \in Workers : WorkerDequeue(w)
    \/ \E w \in Workers, o \in QueueOutcomes : WorkerHandle(w, o)

SpecWorkers == Init /\ [][NextWorkers]_vars

\* The shutdown sequence: FrameProcessor.Shutdown by each caller, then
\* main's Close of the cache, while one ProcessFrame call is under way.
NextShutdown ==
    \/ PFStart(1, "B1", "A")
    \/ \E c \in Calls : PFCountTotal(c)
    \/ \E c \in Calls : PFLookup(c)
    \/ \E c \in Calls : PFCount(c)
    \/ \E c \in Calls : PFSimilar(c)
    \/ \E c \in Calls : PFEnqueueCheck(c)
    \/ \E c \in Calls : PFEnqueueSend(c)
    \/ \E c \in Calls : PFAwaitResult(c)
    \/ \E c \in Calls : PFAwaitTimeout(c)
    \/ \E w \in Workers : WorkerDequeue(w)
    \/ \E w \in Workers, o \in QueueOutcomes : WorkerHandle(w, o)
    \/ \E w \in Workers : WorkerExit(w)
    \/ \E s \in ShutdownCallers : ShutdownBegin(s)
    \/ \E s \in ShutdownCallers : ShutdownSignal(s)
    \/ \E s \in ShutdownCallers : ShutdownDrained(s)
    \/ \E s \in ShutdownCallers : ShutdownTimeout(s)
    \/ \E s \in ShutdownCallers : FPShutdownClose(s)
    \/ \E s \in ShutdownCallers : MainCacheClose(s)

SpecShutdown == Init /\ [][NextShutdown]_vars

\* The calls made with the cache in use: a first submission and one that
\* follows it.
FrameCalls == { c \in Calls : c <= 2 }

\* ProcessFrame with the cache, while the queue is running (Shutdown is not
\* called).
NextFrames ==
    \/ \E c \in FrameCalls, r \in Requests : PFStart(c, r[1], r[2])
    \/ \E c \in Calls : PFCountTotal(c)
    \/ \E c \in Calls : PFLookup(c)
    \/ \E c \in Calls : PFCount(c)
    \/ \E c \in Calls : PFSimilar(c)
    \/ \E c \in Calls : PFEnqueueCheck(c)
    \/ \E c \in Calls : PFEnqueueSend(c)
    \/ \E c \in Calls : PFAwaitResult(c)
    \/ \E c \in Calls : PFAwaitTimeout(c)
    \/ \E c \in Calls : \E v \in Victims(cache) : AsyncSimilaritySet(c, v)
    \/ \E c \in Calls : \E v \in Victims(cache) : AsyncResultSet(c, v)
    \/ \E w \in Workers : WorkerDequeue(w)
    \/ \E w \in Workers, o \in FrameOutcomes : WorkerHandle(w, o)

SpecFrames == Init /\ [][NextFrames]_vars

\* No ProcessFrame call is under way.
NoCallInProgress == \A c \in Calls : pc[c] \in { "idle", "done" }

\* ProcessFrame called by one client at a time: a call starts when the one
\* before it has returned.  The goroutines the calls started and the worker
\* run as they do in NextFrames.
NextSerial ==
    \/ \E c \in FrameCalls, r \in Requests : NoCallInProgress /\ PFStart(c, r[1], r[2])
    \/ \E c \in Calls : PFCountTotal(c)
    \/ \E c \in Calls : PFLookup(c)
    \/ \E c \in Calls : PFCount(c)
    \/ \E c \in Calls : PFSimilar(c)
    \/ \E c \in Calls : PFEnqueueCheck(c)
    \/ \E c \in Calls : PFEnqueueSend(c)
    \/ \E c \in Calls : PFAwaitResult(c)
    \/ \E c \in Calls : PFAwaitTimeout(c)
    \/ \E c \in Calls : \E v \in Victims(cache) : AsyncSimilaritySet(c, v)
    \/ \E c \in Calls : \E v \in Victims(cache) : AsyncResultSet(c, v)
    \/ \E w \in Workers : WorkerDequeue(w)
    \/ \E w \in Workers, o \in FrameOutcomes : WorkerHandle(w, o)

SpecSerial == Init /\ [][NextSerial]_vars

\* ------------------------------------------------------ websocket session
\* One session of WebSocketHandler.HandleWebSocket after the upgrade: the read
\* loop, the ping goroutine and one goroutine per frame, on one connection.

\* ServerMessage{Type, Data}: the frame it answers (0: none) and, for a
\* feedback message, the models.Feedback it carries.
ServerMessage(type, f, item) == [type |-> type, frame |-> f, item |-> item]
NoFeedback == [none |-> TRUE]

\* What ProcessFrame returns to the session: a result with two feedback
\* items, one with none, or an error.
SessionReturns ==
    { processFrameResult(o) : o \in { [kind |-> "ok", scores |-> <<90, 90, 90, 90>>],
                                      [kind |-> "nil"], [kind |-> "err"] } }

\* The two kinds of return, with the shortest result that carries feedback.
ShortReturns ==
    { processFrameResult([kind |-> "err"]), ProcessingResult(getCachedResult, "none") }

\* A goroutine that sends the feedback messages before the analysis.
FrameMessages_FeedbackFirst(f, r) ==
    IF r.error # "none" THEN << ServerMessage("error", f, NoFeedback) >>
    ELSE [ i \in 1..Len(r.analysis.feedback) |->
             ServerMessage("feedback", f, r.analysis.feedback[i]) ]
         \o << ServerMessage("analysis", f, NoFeedback) >>

\* processVideoFrame's goroutine, what it sends for what ProcessFrame
\* returned: one error, or the analysis and then one message per feedback item.
FrameMessages(f, r) ==
    IF r.error # "none" THEN << ServerMessage("error", f, NoFeedback) >>
    ELSE << ServerMessage("analysis", f, NoFeedback) >>
         \o [ i \in 1..Len(r.analysis.feedback) |->
                ServerMessage("feedback", f, r.analysis.feedback[i]) ]

\* handleMessage, what the read loop itself sends for a message: a pong for
\* a ping, an error for undecodable frame data, for a config that does not
\* parse and for an unknown type, config_updated for a config; nothing for a
\* frame that decodes.
ReplyTo(type, decodes) ==
    CASE type = "ping" -> << ServerMessage("pong", 0, NoFeedback) >>
      [] type = "frame" /\ decodes -> <<>>
      [] type = "config" /\ decodes -> << ServerMessage("config_updated", 0, NoFeedback) >>
      [] OTHER -> << ServerMessage("error", 0, NoFeedback) >>

\* The frames whose goroutine has been started.
Spawned == { f \in Frames : tpc[f] # "none" }

\* A write that does not wait for writeMu.
MayWrite_NoLock(holder) == TRUE

\* writeMu.Lock(): the caller goes on when no goroutine holds the mutex.
MayWrite(holder) == holder = NoTask

\* close(done): the channel is closed; closing it again panics.
CloseDone(n) == [closed |-> n + 1, panic |-> n > 0]

\* Whether a panic in a task ends the process: HandleWebSocket runs under
\* gin.Recovery(), the goroutines it starts run with no recover.
PanicEscapes(task) == task # ReadTask

\* HandleWebSocket, the select at the top of the loop: return when done is
\* closed (the deferred calls stop the ticker and close the connection),
\* else go on to read.
ReadSelect ==
    /\ ~crashed
    /\ rpc = "select"
    /\ IF doneClosed > 0
       THEN /\ rpc' = "returned"
            /\ connOK' = FALSE
            /\ tickerOn' = FALSE
       ELSE /\ rpc' = "read"
            /\ UNCHANGED << connOK, tickerOn >>
    /\ UNCHANGED << yvars, fvars, gvars, lvars, readLog, ppc, tpc, pfOrder, pfRet, todo, writeMu,
                    writing, sent, doneClosed, crashed >>

\* conn.ReadJSON returns a message; handleMessage dispatches on its type: a
\* frame that decodes starts its goroutine (go func), the other messages are
\* answered by the read loop itself.
ReadMessage(type, decodes) ==
    /\ ~crashed
    /\ rpc = "read"
    /\ connOK
    /\ Len(readLog) < MaxMsgs
    /\ readLog' = Append(readLog, type)
    /\ IF type = "frame" /\ decodes
       THEN /\ tpc' = [tpc EXCEPT ![Cardinality(Spawned) + 1] = "spawned"]
            /\ rpc' = "select"
            /\ UNCHANGED todo
       ELSE /\ todo' = [todo EXCEPT ![ReadTask] = ReplyTo(type, decodes)]
            /\ rpc' = "handle"
            /\ UNCHANGED tpc
    /\ UNCHANGED << yvars, fvars, gvars, lvars, ppc, pfOrder, pfRet, writeMu, writing, sent,
                    doneClosed, connOK, tickerOn, crashed >>

\* conn.ReadJSON returns an error: close(done), return.
ReadError ==
    /\ ~crashed
    /\ rpc = "read"
    /\ ~connOK
    /\ doneClosed' = CloseDone(doneClosed).closed
    /\ rpc' = IF CloseDone(doneClosed).panic THEN "panicked" ELSE "returned"
    /\ crashed' = (CloseDone(doneClosed).panic /\ PanicEscapes(ReadTask))
    /\ tickerOn' = FALSE
    /\ UNCHANGED << yvars, fvars, gvars, lvars, readLog, ppc, tpc, pfOrder, pfRet, todo, writeMu,
                    writing, sent, connOK >>

\* sendMessage, writeMu.Lock(): the task is inside conn.WriteJSON.
SendBegin(task) ==
    /\ ~crashed
    /\ task \in Senders
    /\ todo[task] # <<>>
    /\ task \notin writing
    /\ MayWrite(writeMu)
    /\ writeMu' = task
    /\ writing' = writing \cup { task }
    /\ UNCHANGED << yvars, fvars, gvars, lvars, rpc, readLog, ppc, tpc, pfOrder, pfRet, todo, sent,
                    doneClosed, connOK, tickerOn, crashed >>

\* sendMessage, the write is over (an error is only logged) and the deferred
\* writeMu.Unlock() runs; after its last message the read loop goes back to
\* its select and a frame goroutine ends.
SendEnd(task) ==
    /\ ~crashed
    /\ task \in writing \ { PingTask }
    /\ sent' = IF connOK THEN Append(sent, Head(todo[task])) ELSE sent
    /\ todo' = [todo EXCEPT ![task] = Tail(@)]
    /\ writing' = writing \ { task }
    /\ writeMu' = NoTask
    /\ rpc' = IF task = ReadTask /\ Tail(todo[task]) = <<>> THEN "select" ELSE rpc
    /\ tpc' = IF task # ReadTask /\ Tail(todo[task]) = <<>>
              THEN [tpc EXCEPT ![task[2]] = "done"] ELSE tpc
    /\ UNCHANGED << yvars, fvars, gvars, lvars, readLog, ppc, pfOrder, pfRet, doneClosed, connOK,
                    tickerOn, crashed >>

\* The goroutine of a frame gets to run and calls h.processor.ProcessFrame.
FrameStart(f) ==
    /\ ~crashed
    /\ tpc[f] = "spawned"
    /\ tpc' = [tpc EXCEPT ![f] = "processing"]
    /\ pfOrder' = Append(pfOrder, f)
    /\ UNCHANGED << yvars, fvars, gvars, lvars, rpc, readLog, ppc, pfRet, todo, writeMu, writing, sent,
                    doneClosed, connOK, tickerOn, crashed >>

\* ProcessFrame returns to the goroutine of a frame.
FrameReturn(f, r) ==
    /\ ~crashed
    /\ tpc[f] = "processing"
    /\ tpc' = [tpc EXCEPT ![f] = "send"]
    /\ todo' = [todo EXCEPT ![FrameTask(f)] = FrameMessages(f, r)]
    /\ pfRet' = [pfRet EXCEPT ![f] = r]
    /\ UNCHANGED << yvars, fvars, gvars, lvars, rpc, readLog, ppc, pfOrder, writeMu, writing,
                    sent, doneClosed, connOK, tickerOn, crashed >>

\* pingRoutine, case <-ticker.C: SetWriteDeadline, then on to writeMu.Lock().
PingTick ==
    /\ ~crashed
    /\ ppc = "select"
    /\ tickerOn
    /\ ppc' = "lock"
    /\ UNCHANGED << yvars, fvars, gvars, lvars, rpc, readLog, tpc, pfOrder, pfRet, todo, writeMu,
                    writing, sent, doneClosed, connOK, tickerOn, crashed >>

\* pingRoutine, case <-done: return.
PingDone ==
    /\ ~crashed
    /\ ppc = "select"
    /\ doneClosed > 0
    /\ ppc' = "exited"
    /\ UNCHANGED << yvars, fvars, gvars, lvars, rpc, readLog, tpc, pfOrder, pfRet, todo, writeMu,
                    writing, sent, doneClosed, connOK, tickerOn, crashed >>

\* pingRoutine, writeMu.Lock(): inside conn.WriteMessage(PingMessage).
PingBegin ==
    /\ ~crashed
    /\ ppc = "lock"
    /\ MayWrite(writeMu)
    /\ ppc' = "write"
    /\ writeMu' = PingTask
    /\ writing' = writing \cup { PingTask }
    /\ UNCHANGED << yvars, fvars, gvars, lvars, rpc, readLog, tpc, pfOrder, pfRet, todo, sent,
                    doneClosed, connOK, tickerOn, crashed >>

\* pingRoutine, the write is over, writeMu.Unlock(); on an error close(done)
\* and return.
PingEnd ==
    /\ ~crashed
    /\ ppc = "write"
    /\ writing' = writing \ { PingTask }
    /\ writeMu' = NoTask
    /\ IF connOK
       THEN /\ ppc' = "select"
            /\ UNCHANGED << doneClosed, crashed >>
       ELSE /\ doneClosed' = CloseDone(doneClosed).closed
            /\ ppc' = IF CloseDone(doneClosed).panic THEN "panicked" ELSE "exited"
            /\ crashed' = (CloseDone(doneClosed).panic /\ PanicEscapes(PingTask))
    /\ UNCHANGED << yvars, fvars, gvars, lvars, rpc, readLog, tpc, pfOrder, pfRet, todo, sent,
                    connOK, tickerOn >>

\* The peer goes away or the network fails: reads and writes return errors.
ConnFail ==
    /\ ~crashed
    /\ connOK
    /\ rpc \notin { "returned", "panicked" }
    /\ connOK' = FALSE
    /\ UNCHANGED << yvars, fvars, gvars, lvars, rpc, readLog, ppc, tpc, pfOrder, pfRet, todo, writeMu,
                    writing, sent, doneClosed, tickerOn, crashed >>

\* A session on a connection that may fail, with the ping goroutine, and a
\* client that sends messages of every kind.
NextSession ==
    \/ ReadSelect
    \/ \E type \in MsgTypes, decodes \in DataDecodes :
           Len(readLog) < SessionMsgs /\ ReadMessage(type, decodes)
    \/ ReadError
    \/ \E task \in Senders : SendBegin(task)
    \/ \E task \in Senders : SendEnd(task)
    \/ \E f \in Frames : FrameStart(f)
    \/ \E f \in Frames, r \in ShortReturns : FrameReturn(f, r)
    \/ PingTick
    \/ PingDone
    \/ PingBegin
    \/ PingEnd
    \/ ConnFail

SpecSession == Init /\ [][NextSession]_vars

\* A session on a sound connection between two ticks of the ping ticker, and
\* a client that sends pings and frames.
NextDialogue ==
    \/ ReadSelect
    \/ \E type \in { "ping", "frame" }, decodes \in DataDecodes :
           ReadMessage(type, decodes)
    \/ \E task \in Senders : SendBegin(task)
    \/ \E task \in Senders : SendEnd(task)
    \/ \E f \in Frames : FrameStart(f)
    \/ \E f \in Frames, r \in SessionReturns : FrameReturn(f, r)

SpecDialogue == Init /\ [][NextDialogue]_vars

\* ------------------------------------------------------- inference client
\* One Client.AnalyzeFrame call and the requests it issues.

\* What one executeAnalysisRequest can meet: http.NewRequest fails (no
\* request leaves), httpClient.Do fails, the service answers with a status
\* other than 200 (a 5xx, or a 2xx such as 204), answers 200 with a body that
\* does not decode, or answers 200 with an analysis.
Replies == { "no request", "transport", "status 500", "status 204", "malformed", "ok" }

\* Whether the attempt got as far as httpClient.Do.
IssuesRequest(o) == o # "no request"

\* executeAnalysisRequest: the error it returns ("nil": none).  Only a 200
\* answer whose body decodes gives a result.
executeAnalysisRequest(o) ==
    CASE o = "no request" -> "failed to create request"
      [] o = "transport" -> "HTTP request failed"
      [] o \in { "status 500", "status 204" } -> "ML service error"
      [] o = "malformed" -> "failed to decode response"
      [] o = "ok" -> "nil"

\* A loop that stops one attempt early.
MoreAttempts_OneLess(n) == n < MaxRetries

\* The loop condition of AnalyzeFrame: attempt <= c.config.MaxRetries.
MoreAttempts(n) == n <= MaxRetries

\* AnalyzeFrame is called: attempt := 0.
AnalyzeStart ==
    /\ apc = "idle"
    /\ apc' = "loop"
    /\ attempt' = 0
    /\ UNCHANGED << fvars, gvars, lvars, wvars, bvars, kvars, uvars, lastErr, requests, tried, aret >>

\* The loop condition: go on to the next attempt (after the sleep when
\* attempt > 0), or leave the loop and return the error.
AnalyzeLoop ==
    /\ apc = "loop"
    /\ IF MoreAttempts(attempt)
       THEN /\ apc' = "request"
            /\ UNCHANGED aret
       ELSE /\ apc' = "returned"
            /\ aret' = "error"
    /\ UNCHANGED << fvars, gvars, lvars, wvars, bvars, kvars, uvars, attempt, lastErr, requests, tried >>

\* One executeAnalysisRequest: err == nil returns the result, any error is
\* kept in lastErr and the loop goes on (attempt++).
AnalyzeAttempt(o) ==
    /\ apc = "request"
    /\ tried' = Append(tried, o)
    /\ requests' = IF IssuesRequest(o) THEN requests + 1 ELSE requests
    /\ IF executeAnalysisRequest(o) = "nil"
       THEN /\ apc' = "returned"
            /\ aret' = "result"
            /\ UNCHANGED << attempt, lastErr >>
       ELSE /\ lastErr' = executeAnalysisRequest(o)
            /\ attempt' = attempt + 1
            /\ apc' = "loop"
            /\ UNCHANGED aret
    /\ UNCHANGED << fvars, gvars, lvars, wvars, bvars, kvars, uvars >>

NextAnalyze ==
    \/ AnalyzeStart
    \/ AnalyzeLoop
    \/ \E o \in Replies : AnalyzeAttempt(o)

SpecAnalyze == Init /\ [][NextAnalyze]_vars

\* ------------------------------------------- main and the background tasks
\* main from the wait for the interrupt signal to its return, with the three
\* ticker goroutines and the queue workers.  The shutdown is that of the
\* first Shutdown caller.

\* Whether the process still runs: main has not returned, and its Close of
\* the cache has not panicked.
ProcessAlive == mainpc # "exited" /\ mainRet["s1"] # "panic"

\* Whether the ticker of a task still runs: Close stops the cache's ticker
\* before it closes stopCh, RateLimiter.Shutdown stops rl.cleanup, nothing
\* stops the health checker's.
TickerRuns(t) ==
    CASE t = "sweeper" -> stopCh = "open"
      [] t = "reaper" -> cleanupOn
      [] t = "health" -> TRUE

\* A ticker sends a tick on its channel; the tick is dropped when one waits.
TickerFire(t) ==
    /\ ProcessAlive
    /\ TickerRuns(t)
    /\ ~pending[t]
    /\ pending' = [pending EXCEPT ![t] = TRUE]
    /\ UNCHANGED << fvars, gvars, lvars, wvars, nvars, kvars, uvars, mainpc, cleanupOn, bpc >>

\* cleanupExpired, case <-c.cleanup.C: the expired entries are deleted.
SweeperTick ==
    /\ ProcessAlive
    /\ bpc["sweeper"] = "loop"
    /\ pending["sweeper"]
    /\ pending' = [pending EXCEPT !["sweeper"] = FALSE]
    /\ cache' = cleanupExpired(cache)
    /\ UNCHANGED << qvars, svars, pvars, now, avars, gvars, lvars, wvars, nvars, kvars, uvars,
                    mainpc, cleanupOn, bpc >>

\* cleanupExpired, case <-c.stopCh: return.
SweeperStop ==
    /\ ProcessAlive
    /\ bpc["sweeper"] = "loop"
    /\ stopCh = "closed"
    /\ bpc' = [bpc EXCEPT !["sweeper"] = "exited"]
    /\ UNCHANGED << fvars, gvars, lvars, wvars, nvars, kvars, uvars, mainpc, cleanupOn, pending >>

\* cleanupExpiredClients, one iteration of for range rl.cleanup.C: the idle
\* buckets are deleted.  The loop has no other exit than the close of the
\* channel, and a Ticker's channel is never closed.
ReaperTick ==
    /\ ProcessAlive
    /\ bpc["reaper"] = "loop"
    /\ pending["reaper"]
    /\ pending' = [pending EXCEPT !["reaper"] = FALSE]
    /\ clients' = [ ip \in Kept |-> clients[ip] ]
    /\ UNCHANGED << fvars, gvars, wvars, nvars, kvars, uvars, clock, stepped, buckets, lpc, lbkt,
                    lcfg, lhist, mainpc, cleanupOn, bpc >>

\* startHealthChecker, one iteration of for range ticker.C: HealthCheck, its
\* error is logged.
HealthTick ==
    /\ ProcessAlive
    /\ bpc["health"] = "loop"
    /\ pending["health"]
    /\ pending' = [pending EXCEPT !["health"] = FALSE]
    /\ UNCHANGED << fvars, gvars, lvars, wvars, nvars, kvars, uvars, mainpc, cleanupOn, bpc >>

\* main, <-quit: the interrupt signal arrives; main goes on to
\* server.frameProcessor.Shutdown().
MainSignal ==
    /\ mainpc = "serving"
    /\ mainpc' = "fp"
    /\ UNCHANGED << fvars, gvars, lvars, wvars, nvars, kvars, uvars, cleanupOn, pending, bpc >>

\* main, server.rateLimiter.Shutdown() once the frame processor's Shutdown
\* has returned: rl.cleanup.Stop().
MainLimiterShutdown ==
    /\ ProcessAlive
    /\ mainpc = "fp"
    /\ fpRet["s1"] \in { "nil", "error" }
    /\ cleanupOn' = FALSE
    /\ mainpc' = "cache"
    /\ UNCHANGED << fvars, gvars, lvars, wvars, nvars, kvars, uvars, pending, bpc >>

\* main, srv.Shutdown(ctx) once server.cache.Close() has returned, and the
\* return of main: the process exits.
MainHTTPShutdown ==
    /\ ProcessAlive
    /\ mainpc = "cache"
    /\ mainRet["s1"] = "nil"
    /\ mainpc' = "exited"
    /\ UNCHANGED << fvars, gvars, lvars, wvars, nvars, kvars, uvars, cleanupOn, pending, bpc >>

\* The steps of main's shutdown sequence, in the order main takes them.
MainShutdownStep ==
    \/ mainpc = "fp" /\ ShutdownBegin("s1")
    \/ ShutdownSignal("s1")
    \/ ShutdownDrained("s1")
    \/ FPShutdownClose("s1")
    \/ MainLimiterShutdown
    \/ mainpc = "cache" /\ MainCacheClose("s1")
    \/ MainHTTPShutdown

NextBackground ==
    \/ \E t \in BackgroundTasks : TickerFire(t)
    \/ SweeperTick
    \/ SweeperStop
    \/ ReaperTick
    \/ HealthTick
    \/ MainSignal
    \/ ProcessAlive /\ MainShutdownStep
    \/ ProcessAlive /\ ShutdownTimeout("s1")
    \/ \E w \in Workers : ProcessAlive /\ WorkerExit(w)

\* Every goroutine that can take a step takes it in the end; the tickers and
\* the timeout of Shutdown are under no such obligation.
SpecBackground ==
    /\ Init /\ [][NextBackground]_vars
    /\ WF_vars(SweeperTick) /\ WF_vars(SweeperStop)
    /\ WF_vars(ReaperTick) /\ WF_vars(HealthTick)
    /\ WF_vars(ProcessAlive /\ MainShutdownStep)
    /\ \A w \in Workers : WF_vars(ProcessAlive /\ WorkerExit(w))

\* --------------------------------------------------------- PriorityQueue
\* The slice pq.items under Push and Pop (each runs under pq.mutex).

QueueItemOf(id, prio) == [id |-> id, priority |-> prio]
PQNil == [id |-> 0, priority |-> 0]

\* A Push that inserts before the first item of lower or equal priority.
Push_BeforeEqual(s, item) ==
    LET at == { i \in 1..Len(s) : item.priority >= s[i].priority }
        i == CHOOSE x \in at : \A y \in at : x <= y
    IN  IF at = {} THEN Append(s, item)
        ELSE SubSeq(s, 1, i - 1) \o << item >> \o SubSeq(s, i, Len(s))

\* PriorityQueue.Push: the loop stops at the first index i with
\* item.Priority > existing.Priority and inserts there; with no such index
\* the item is appended.
Push(s, item) ==
    LET at == { i \in 1..Len(s) : item.priority > s[i].priority }
        i == CHOOSE x \in at : \A y \in at : x <= y
    IN  IF at = {} THEN Append(s, item)
        ELSE SubSeq(s, 1, i - 1) \o << item >> \o SubSeq(s, i, Len(s))

\* PriorityQueue.Pop: nil on an empty slice, else the first item, which is
\* removed.
Pop(s) ==
    IF Len(s) = 0 THEN [item |-> PQNil, rest |-> s]
    ELSE [item |-> s[1], rest |-> SubSeq(s, 2, Len(s))]

PQPush(prio) ==
    /\ pushed < MaxPushes
    /\ pushed' = pushed + 1
    /\ pqItems' = Push(pqItems, QueueItemOf(pushed + 1, prio))
    /\ UNCHANGED << fvars, gvars, lvars, wvars, nvars, bvars, uvars, popped >>

PQPop ==
    /\ Len(popped) < MaxPushes
    /\ popped' = Append(popped, Pop(pqItems).item)
    /\ pqItems' = Pop(pqItems).rest
    /\ UNCHANGED << fvars, gvars, lvars, wvars, nvars, bvars, uvars, pushed >>

NextPriority ==
    \/ \E prio \in Priorities : PQPush(prio)
    \/ PQPop

SpecPriority == Init /\ [][NextPriority]_vars

\* ------------------------------------------------------ generateFeedback
\* One call of generateFeedback on an analysis with the given scores.
FeedbackCall(o, p, l, sp) ==
    /\ fbScores = NoScores
    /\ fbScores' = << o, p, l, sp >>
    /\ fbOut' = generateFeedback(convertMLResponse(<< o, p, l, sp >>))
    /\ UNCHANGED << fvars, gvars, lvars, wvars, nvars, bvars, kvars >>

NextFeedback == \E o, p, l, sp \in ScoreValues : FeedbackCall(o, p, l, sp)

SpecFeedback == Init /\ [][NextFeedback]_vars

\* ------------------------------------------------------------------ claims
InBuffer(c) == \E i \in 1..Len(items) : items[i] = c

\* C1: Enqueue never blocks; it returns false only when it saw the queue not
\* running or found the buffer full; an Enqueue called after Shutdown cleared
\* isRunning never returns true; and on a running queue the select returns
\* true exactly when the buffer has room.
C1_EnqueueContract ==
    /\ [](\A c \in Calls :
            /\ pc[c] = "enqueue" => ENABLED PFEnqueueCheck(c)
            /\ pc[c] = "send" => ENABLED PFEnqueueSend(c))
    /\ [][\A c \in Calls :
            /\ (enq[c].result = "none" /\ enq'[c].result = "false")
                 => (~isRunning \/ Len(items) >= QueueCapacity)
            /\ (enq[c].result = "none" /\ enq'[c].result = "true")
                 => (~enq[c].stoppedAtCall /\ InBuffer(c)')
            /\ (pc[c] = "send" /\ pc'[c] # "send" /\ isRunning)
                 => (enq'[c].result = "true" <=> Len(items) < QueueCapacity)
            /\ (pc[c] = "send" /\ pc'[c] # "send" /\ isRunning)
                 => enq'[c].result \in { "true", "false" }
            /\ (enq[c].stoppedAtCall /\ pc[c] = "enqueue" /\ pc'[c] # "enqueue")
                 => enq'[c].result = "false"
       ]_vars

\* C1 witness: one call was accepted, and another, made after Shutdown had
\* cleared isRunning, was refused.
C1_Witness ==
    \E c, d \in Calls :
        /\ enq[c].result = "true"
        /\ enq[d].stoppedAtCall /\ enq[d].result = "false"

\* C2: the buffer never holds more than its capacity and no more handlers run
\* than there are workers.
C2_Bounded ==
    /\ Len(items) <= QueueCapacity
    /\ inFlight <= NumWorkers
    /\ inFlight = Cardinality({ w \in Workers : wpc[w] = "handling" })

\* C2 witness: the buffer is full while every worker runs a handler.
C2_Witness == Len(items) = QueueCapacity /\ inFlight = NumWorkers

\* C3: an item's sink never receives two results, and once the handler for a
\* dequeued item is over the sink has received exactly one, whatever
\* AnalyzeFrame did (answer, error, nil, panic); the handler's send never
\* finds the sink occupied.
C3_ExactlyOneResult ==
    /\ \A c \in Calls :
         /\ written[c] <= 1
         /\ (outcome[c] # "none") <=> (written[c] = 1)
    /\ \A w \in Workers :
         wpc[w] = "handling" => (sink[wItem[w]] = <<>> /\ written[wItem[w]] = 0)

\* C3 witness: a handler that panicked and a handler that got (nil, nil) have
\* each left one result.
C3_Witness ==
    \E c, d \in Calls :
        /\ outcome[c] = "panic" /\ written[c] = 1
        /\ outcome[d] \in { "nil", "err", "ok" } /\ written[d] = 1

\* Shutdown has returned through its done case (what an unbounded timeout
\* leaves as the only way out).
ShutdownReturnedDrained ==
    /\ itemsClosed > 0
    /\ \A s \in ShutdownCallers : sdResult[s] # "timeout"

\* C4: when Shutdown returns without timing out, every item that was in a
\* handler when shutdown began has exactly one result on its sink, and every
\* worker has exited with no item in hand.
C4_ShutdownDrains ==
    /\ ShutdownReturnedDrained =>
         /\ \A c \in atShutdown : written[c] = 1
         /\ \A w \in Workers : wpc[w] = "exited"
    /\ \A w \in Workers : wpc[w] = "exited" => wItem[w] = 0

\* C4 witness: Shutdown returned nil and an item was in flight when it began.
C4_Witness == ShutdownReturnedDrained /\ atShutdown # {}

\* C5 (as claimed): once Shutdown has closed the intake, every item still in
\* the buffer has a cancellation result on its sink, and a Shutdown that timed
\* out has closed the intake.
C5_PendingCancelled ==
    /\ (\E s \in ShutdownCallers : sdpc[s] = "returned" /\ sdResult[s] = "timeout")
         => itemsClosed > 0
    /\ itemsClosed > 0 =>
         \A c \in Calls :
            InBuffer(c) =>
               \E i \in 1..Len(sink[c]) : sink[c][i].error = "processing cancelled"

\* The lifecycle of the queue.
Phase ==
    IF isRunning THEN "running"
    ELSE IF itemsClosed = 0 THEN "draining" ELSE "stopped"

\* C6: the queue moves running -> draining -> stopped only; once not running
\* it never runs again; no channel is closed twice; a Shutdown call on a queue
\* that is not running returns nil and closes nothing; the number of workers
\* started never changes.
C6_Lifecycle ==
    /\ [](shutdownClosed <= 1 /\ itemsClosed <= 1 /\ started = NumWorkers)
    /\ [][ /\ << Phase, Phase' >> \in { << "running", "running" >>,
                                        << "running", "draining" >>,
                                        << "draining", "draining" >>,
                                        << "draining", "stopped" >>,
                                        << "stopped", "stopped" >> }
           /\ \A s \in ShutdownCallers :
                (sdpc[s] = "idle" /\ sdpc'[s] # "idle" /\ ~isRunning)
                  => /\ sdpc'[s] = "returned" /\ sdResult'[s] = "nil"
                     /\ UNCHANGED << shutdownClosed, itemsClosed, isRunning >>
       ]_vars

\* C6 witness: both Shutdown calls have returned, the second as a no-op, and
\* the queue is stopped.
C6_Witness ==
    /\ \A s \in ShutdownCallers : sdpc[s] = "returned"
    /\ Phase = "stopped"

\* C7: a handler panic leaves an error result for its item (on the sink, or
\* already taken by the caller as an error), and a worker leaves its loop
\* only through the shutdown case.
C7_PanicIsolated ==
    /\ \A c \in Calls :
         outcome[c] = "panic" =>
            /\ written[c] = 1
            /\ \/ sink[c] # <<>> /\ Head(sink[c]).error # "none"
               \/ sink[c] = <<>> /\ pc[c] \in { "count", "done" } /\ ret[c].kind = "error"
                  /\ ret[c].value = "processing failed"
    /\ \A w \in Workers :
         \/ wpc[w] \in { "select", "handling" }
         \/ wpc[w] = "exited" /\ shutdownClosed > 0

\* C7 witness: a worker whose handler panicked is running the handler of a
\* later item.
C7_Witness == \E w \in Workers : wPanics[w] /\ wpc[w] = "handling"

\* C8 (as claimed): a call that follows a successful first call with the same
\* (image, client) within the cache TTL returns that call's result and the
\* inference client is not invoked for it.
C8_RepeatReturnsFirstResult ==
    \A c \in Calls :
        (pc[c] = "done" /\ prior[c].seen) =>
            /\ ret[c].kind = "ok"
            /\ ret[c].value = prior[c].value
            /\ outcome[c] = "none"

\* The feedback rules of the specification's table, each applied on its own,
\* in table order.
Rule(cond, t, m, s) == IF cond THEN << Feedback(t, m, s) >> ELSE <<>>
RuleFeedback(a) ==
    Rule(a.posture < 70, "warning", "posture_low", a.posture)
    \o Rule(a.posture > 85, "success", "posture_high", a.posture)
    \o Rule(a.lane < 60, "error", "lane", a.lane)
    \o Rule(a.speed < 65, "warning", "speed", a.speed)
    \o Rule(a.overall > 80, "success", "overall", a.overall)

ScoresOf(a) == << a.overall, a.posture, a.lane, a.speed >>
InRange(a) == \A i \in 1..4 : ScoresOf(a)[i] \in 0..100
Synthetic == Result(75, 80, 70, 75, << Feedback("info", "cached", 75) >>)

\* C9 (as claimed): a submission of an image submitted once before, by another
\* client whose call returned the inference answer within the last five
\* minutes, returns the synthetic result with its single info item, is not
\* enqueued and invokes no inference.
C9_SecondClientGetsSynthetic ==
    \A c \in Calls :
        (pc[c] = "done" /\ prior[c].dup) =>
            /\ ret[c].kind = "ok" /\ ret[c].value = Synthetic
            /\ enq[c].result = "none"
            /\ outcome[c] = "none"

\* C9 (amended): a submission that misses its own cache key and finds the
\* similarity mark of its image stored and unexpired returns the synthetic
\* result (75, 80, 70, 75) with exactly one info item, is never enqueued and
\* invokes no inference; the mark is stored when the background SetWithTTL of
\* an earlier submission runs, and only a submission that finds it takes this
\* path.
C9_SyntheticWhenMarked ==
    /\ [](\A c \in Calls :
            path[c] = "similar" =>
               /\ pc[c] = "done" /\ ret[c].kind = "ok" /\ ret[c].value = Synthetic
               /\ Len(ret[c].value.feedback) = 1
               /\ ret[c].value.feedback[1].type = "info"
               /\ enq[c].result = "none" /\ ~InBuffer(c)
               /\ outcome[c] = "none" /\ written[c] = 0)
    /\ [][\A c \in Calls :
            LET k == SimilarityKey(req[c].image)
                marked == k \in DOMAIN cache /\ now <= cache[k].expiresAt
            IN  /\ (pc[c] = "similar" /\ pc'[c] # "similar")
                     => (marked <=> path'[c] = "similar")
                /\ (simSet[c] = "pending" /\ simSet'[c] = "done")
                     => (k \in DOMAIN cache' /\ cache'[k].expiresAt = now + SimilarityTTL)
       ]_vars

\* C9 witness: the second client's submission of a frame the first client had
\* analysed has returned the synthetic result.
C9_Witness ==
    \E c \in Calls : pc[c] = "done" /\ prior[c].dup /\ path[c] = "similar"

C11_RejectedCall ==
    /\ [](\A c \in Calls :
            path[c] = "rejected" =>
               /\ pc[c] \in { "count", "done" }
               /\ ret[c].kind = "error" /\ ret[c].value = "queue full"
               /\ enq[c].result = "false"
               /\ ~InBuffer(c) /\ \A w \in Workers : wItem[w] # c
               /\ outcome[c] = "none" /\ written[c] = 0 /\ sink[c] = <<>>)
    /\ [][\A c \in Calls :
            /\ (path[c] # "rejected" /\ path'[c] = "rejected")
                 => (pc[c] \in { "enqueue", "send" } /\ pc'[c] = "count"
                     /\ reg'[c] = stats.failed /\ stats' = stats)
            /\ (path[c] = "rejected" /\ pc[c] = "count" /\ pc'[c] # "count")
                 => (pc'[c] = "done"
                     /\ stats' = [stats EXCEPT !.failed = reg[c] + 1])
       ]_vars

\* C11 witness: on a running queue a call found the buffer full and has
\* returned, and the failure is counted.
C11_Witness ==
    \E c \in Calls :
        /\ pc[c] = "done" /\ path[c] = "rejected" /\ ~enq[c].stoppedAtCall
        /\ isRunning /\ stats.failed = 1

\* C12: a call whose wait timed out returns the timeout error and its only
\* counter update after TotalProcessed is one FailedProcessed++; a worker still
\* running the handler of that call can always finish it (the write to the
\* abandoned sink does not block), the result stays in the sink, and the
\* worker is back at its select, where it takes the next buffered item.
C12_TimeoutAbandons ==
    /\ [](\A c \in Calls :
            path[c] = "timeout" =>
               /\ pc[c] \in { "count", "done" }
               /\ ret[c].kind = "error" /\ ret[c].value = "processing timeout"
               /\ enq[c].result = "true")
    /\ [](\A w \in Workers :
            /\ (wpc[w] = "handling" /\ path[wItem[w]] = "timeout")
                 => ENABLED (\E o \in QueueOutcomes : WorkerHandle(w, o))
            /\ (wpc[w] = "select" /\ items # <<>>) => ENABLED WorkerDequeue(w))
    /\ [][/\ \A w \in Workers :
               (wpc[w] = "handling" /\ path[wItem[w]] = "timeout" /\ wpc'[w] # "handling")
                 => /\ wpc'[w] = "select"
                    /\ written'[wItem[w]] = 1
                    /\ Len(sink'[wItem[w]]) = 1
          /\ \A c \in Calls :
               /\ (path[c] # "timeout" /\ path'[c] = "timeout")
                    => (pc[c] = "await" /\ pc'[c] = "count"
                        /\ reg'[c] = stats.failed /\ stats' = stats)
               /\ (path[c] = "timeout" /\ pc[c] = "count" /\ pc'[c] # "count")
                    => (pc'[c] = "done"
                        /\ stats' = [stats EXCEPT !.failed = reg[c] + 1])
               /\ (path[c] = "timeout" /\ written[c] = 1) => sink'[c] = sink[c]
       ]_vars

\* C12 witness: a call has timed out and returned, the worker has since
\* written that call's result to the abandoned sink, and it is now running
\* the handler of another item.
C12_Witness ==
    \E c \in Calls, w \in Workers :
        /\ pc[c] = "done" /\ path[c] = "timeout" /\ stats.failed >= 1
        /\ written[c] = 1 /\ sink[c] # <<>>
        /\ wpc[w] = "handling" /\ wItem[w] # c

\* C13 (as claimed): when every call has returned, TotalProcessed is the
\* number of calls, and SuccessfullyProcessed and FailedProcessed are the
\* numbers of calls that returned through a path that counts a success and a
\* failure.
C13_NoLostIncrement ==
    (\A c \in Calls : pc[c] = "done") =>
        /\ stats.total = MaxCalls
        /\ stats.success = Cardinality({ c \in Calls : PathCounter(path[c]) = "success" })
        /\ stats.failed = Cardinality({ c \in Calls : PathCounter(path[c]) = "failed" })

\* C14 (as claimed): no FrameProcessor.Shutdown call panics, a call that
\* found the queue already stopped returns nil, and main's Close of the cache
\* after Shutdown has returned does not panic.
C14_ShutdownIdempotent ==
    \A s \in ShutdownCallers :
        /\ fpRet[s] # "panic"
        /\ mainRet[s] # "panic"
        /\ (fpRet[s] = "error") => (sdResult[s] = "timeout")

\* The calls of the client, by position, and the ones that write a key.
Ops == 1..Len(hist)
IsSet(h) == h.op \in { "set", "set_with_ttl" }
WritesKey(h, k) ==
    \/ h.key = k /\ h.op \in { "set", "set_with_ttl", "delete", "increment",
                              "increment_with_ttl" }
    \/ h.evicted = k

\* C15 (as claimed): no Close panics, the second no more than the first.
C15_CloseIdempotent ==
    \A i \in Ops : hist[i].op = "close" => hist[i].err = "nil"

\* C16 (as claimed): once the cache is closed, every call other than Close
\* fails with the closed-cache error and leaves the stored entries as they
\* were.
C16_ClosedCacheRejects ==
    [][(stopCh = "closed" /\ hist' # hist /\ hist'[Len(hist')].op # "close")
          => (hist'[Len(hist')].err = "closed" /\ cache' = cache)]_vars

\* C17 (as claimed): a get that follows a set of the same key, with no write
\* or eviction of the key in between and before the entry expires, returns
\* nil and leaves the value set in the caller's dest; an exists that follows
\* a delete of the same key answers false.
C17_SetThenGet ==
    \A i, j \in Ops :
        /\ (/\ i < j /\ IsSet(hist[i]) /\ hist[j].op = "get"
            /\ hist[j].key = hist[i].key
            /\ \A x \in Ops : (i < x /\ x < j) => ~WritesKey(hist[x], hist[i].key)
            /\ hist[j].t <= hist[i].t + hist[i].arg[2])
             => (hist[j].err = "nil" /\ hist[j].out = hist[i].arg[1])
        /\ (/\ j = i + 1 /\ hist[i].op = "delete" /\ hist[j].op = "exists"
            /\ hist[j].key = hist[i].key)
             => hist[j].out = << "bool", FALSE >>

\* The client has only inserted: every call a set or set_with_ttl of a key
\* not set before, and no entry has expired.
InsertsOnly ==
    /\ \A i \in Ops : IsSet(hist[i]) /\ now <= hist[i].t + hist[i].arg[2]
    /\ \A i, j \in Ops : i # j => hist[i].key # hist[j].key
Inserted == { hist[i].key : i \in Ops }

C19_SizeBounded == Cardinality(DOMAIN cache) <= CacheMaxSize

\* The calls made on key k, and: they are all increments, no set has evicted
\* k and the entry has not expired since the first of them.
OpsOn(k) == { i \in Ops : hist[i].key = k }
OnlyIncrements(k) ==
    /\ \A i \in Ops : /\ hist[i].key = k => hist[i].op = "increment"
                      /\ hist[i].evicted # k
    /\ \A i \in OpsOn(k) : now <= hist[i].t + CacheTTL

\* C20: when the only calls on a key absent at the start are increments and
\* the entry does not expire, the n-th of them to take the lock returns n
\* (so N calls return 1..N, each once) and the stored value is their number.
C20_ConcurrentIncrements ==
    \A k \in APIKeys :
        OnlyIncrements(k) =>
            /\ \A i \in OpsOn(k) :
                 hist[i].out = IntVal(Cardinality({ j \in OpsOn(k) : j <= i }))
            /\ OpsOn(k) # {} =>
                 (k \in DOMAIN cache /\ cache[k].value = IntVal(Cardinality(OpsOn(k))))

\* C20 witness: every call the client made was an increment of one key, and
\* the key holds their number.
C20_Witness ==
    \E k \in APIKeys :
        /\ OnlyIncrements(k) /\ Cardinality(OpsOn(k)) = MaxOps
        /\ cache[k].value = IntVal(MaxOps)

\* What the counter operations are to store and return for key k in map m:
\* 1 for a missing or expired entry and for a non-integer, else the count + 1.
CounterContract(m, k) ==
    IF k \notin DOMAIN m THEN 1
    ELSE IF Expired(m[k]) THEN 1
    ELSE IF m[k].value[1] # "int" THEN 1
    ELSE m[k].value[2] + 1

\* C21: increment(k) and increment_with_ttl(k, ttl) return and store 1 when k
\* is missing or its entry is expired, store 1 over a non-integer, and else
\* store the old value plus 1; increment_with_ttl always sets expires_at to
\* now + ttl, and increment on a live integer entry leaves expires_at as it was.
C21_IncrementContract ==
    [][ \A k \in APIKeys :
          LET h == hist'[Len(hist')]
              liveInt == /\ k \in DOMAIN cache
                         /\ ~Expired(cache[k])
                         /\ cache[k].value[1] = "int"
          IN  ( /\ Len(hist') = Len(hist) + 1
                /\ h.key = k
                /\ h.op \in { "increment", "increment_with_ttl" } )
              => /\ h.err = "nil"
                 /\ h.out = IntVal(CounterContract(cache, k))
                 /\ k \in DOMAIN cache'
                 /\ cache'[k].value = IntVal(CounterContract(cache, k))
                 /\ h.op = "increment_with_ttl" => cache'[k].expiresAt = now + h.arg
                 /\ (h.op = "increment" /\ liveInt)
                        => cache'[k].expiresAt = cache[k].expiresAt ]_vars

\* C22: a get on an expired entry deletes it and reports a miss, and the
\* last_used and access_count of an existing entry change only by a
\* successful get: exists, ttl, a missed get and the counter operations on a
\* live entry leave both as they were.
C22_OnlyGetTouches ==
    [][ \A k \in APIKeys :
          LET h == hist'[Len(hist')]
          IN  ( /\ Len(hist') = Len(hist) + 1
                /\ h.key = k
                /\ k \in DOMAIN cache )
              => /\ (h.op = "get" /\ Expired(cache[k]))
                        => (h.err = "miss" /\ k \notin DOMAIN cache')
                 /\ ( /\ ~Expired(cache[k])
                      /\ \/ h.op \in { "exists", "ttl", "increment", "increment_with_ttl" }
                         \/ (h.op = "get" /\ h.err = "miss") )
                        => /\ k \in DOMAIN cache'
                           /\ cache'[k].lastUsed = cache[k].lastUsed
                           /\ cache'[k].accessCount = cache[k].accessCount ]_vars

\* C23: cache operations are linearizable per key; in particular a get that
\* has observed an expired entry never removes a value that a set wrote after
\* that observation.
C23_GetKeepsNewerValue ==
    [][ \A g \in Getters :
          (gpc[g] = "delete" /\ gpc'[g] = "idle")
              => ~(gstale[g] /\ gkey[g] \in DOMAIN cache /\ ~Expired(cache[gkey[g]])) ]_vars

\* Every call made so far, returned or not, came through RateLimit().
OneLimit ==
    /\ \A n \in 1..Len(lhist) : lhist[n].cfg = DefaultConfig
    /\ \A t \in LimiterThreads : lpc[t] = "bucket" => lcfg[t] = DefaultConfig

\* The calls from the i-th to the j-th that returned true.
AllowedIn(i, j) == Cardinality({ n \in i..j : lhist[n].ok })

\* C24: under a limit of rps tokens per second with burst b, in every window
\* of T seconds the calls of one client that return true number at most
\* b + rps * T (the window from the i-th call to the j-th, T in ticks).
C24_WindowBound ==
    OneLimit =>
        \A i, j \in 1..Len(lhist) :
            i <= j =>
                TicksPerSecond * AllowedIn(i, j)
                    <= TicksPerSecond * RateLimitBurst
                       + RateLimitRPS * (lhist[j].t - lhist[i].t)

\* The threads whose step wrote bucket b: the one that made it, or the one
\* that ran allowRequest on it.
WroteBucket(t, b) ==
    /\ lpc'[t] # lpc[t]
    /\ lbkt'[t] = b
    /\ b \notin DOMAIN buckets \/ lpc[t] = "bucket"

\* C25: every token bucket always has 0 <= tokens <= burst, whatever the
\* interleaving of allow calls (default and per-call (rps, burst)) and reaper
\* sweeps: tokens are never negative nor above the largest burst in use, and
\* every call that writes a bucket leaves it within the burst of that call.
C25_TokensWithinBurst ==
    /\ [](\A b \in DOMAIN buckets :
              /\ buckets[b].tokens >= 0
              /\ \E cfg \in LimitConfigs : buckets[b].tokens <= cfg.burst)
    /\ [][ \A b \in DOMAIN buckets' :
             (b \notin DOMAIN buckets \/ buckets'[b] # buckets[b])
                 => \E t \in LimiterThreads :
                        /\ WroteBucket(t, b)
                        /\ buckets'[b].tokens >= 0
                        /\ buckets'[b].tokens <= lcfg'[t].burst ]_vars

\* A bucket made full by a RateLimitWithConfig route has been cut down to the
\* default burst by a later allowRequest, and one left idle has been refilled
\* up to the ceiling only.
C25_Witness ==
    \E i, j \in 1..Len(lhist) :
        /\ i < j
        /\ lhist[i].bucket = lhist[j].bucket
        /\ lhist[i].cfg = CustomConfig
        /\ lhist[j].cfg = DefaultConfig
        /\ lhist[j].t > lhist[i].t + ReapIdle
        /\ lhist[j].ok
        /\ j = Len(lhist)
        /\ buckets[lhist[j].bucket].tokens = RateLimitBurst - 1

\* C26: with rps = 2 and burst = 3, five allow calls of one new client at the
\* same instant return true, true, true, false, false; of its calls one
\* second later exactly the next two return true.
C26_BurstThenRefill ==
    ( /\ Len(lhist) >= 5
      /\ \A n \in 1..Len(lhist) :
            /\ lhist[n].cfg = [rps |-> 2, burst |-> 3]
            /\ lhist[n].t = IF n <= 5 THEN 0 ELSE TicksPerSecond )
    => /\ << lhist[1].ok, lhist[2].ok, lhist[3].ok, lhist[4].ok, lhist[5].ok >>
              = << TRUE, TRUE, TRUE, FALSE, FALSE >>
       /\ Len(lhist) >= 6 => lhist[6].ok
       /\ Len(lhist) >= 7 => lhist[7].ok
       /\ Len(lhist) >= 8 => ~lhist[8].ok

\* The five calls at once and three more a second later have all returned.
C26_Witness ==
    /\ Len(lhist) = 8
    /\ \A n \in 1..8 : lhist[n].t = IF n <= 5 THEN 0 ELSE TicksPerSecond
    /\ lhist[6].ok /\ lhist[7].ok /\ ~lhist[8].ok

\* C27: within one session at most one task writes to the socket at any
\* time: every write (pong, analysis, feedback, error, config_updated and the
\* protocol-level ping) is made by the holder of the session's write mutex.
C27_WritesSerialized ==
    /\ Cardinality(writing) <= 1
    /\ \A task \in writing : writeMu = task

\* The ping goroutine is inside its write while the read loop and the
\* goroutine of a frame each have a message to send.
C27_Witness ==
    /\ writing = { PingTask }
    /\ todo[ReadTask] # <<>>
    /\ \E f \in Frames : todo[FrameTask(f)] # <<>>

\* C28: no session task raises a panic that reaches the process boundary; in
\* particular done is closed at most once when both the read loop and the
\* ping task detect a failure.
C28_NoEscapingPanic ==
    /\ ~crashed
    /\ doneClosed <= 1

\* Every message read has been answered in full.
Quiet ==
    /\ rpc \in { "select", "read" }
    /\ \A task \in SessionTasks : todo[task] = <<>>
    /\ \A f \in Frames : tpc[f] \in { "none", "done" }

\* C29: when the client sends ping, frame, ping, the server writes a pong,
\* then the frame's response (one analysis followed by its feedback messages,
\* or one error), then the second pong.
C29_PingFramePing ==
    (readLog = << "ping", "frame", "ping" >> /\ Quiet /\ connOK)
        => /\ Len(sent) >= 3
           /\ sent[1].type = "pong"
           /\ sent[Len(sent)].type = "pong"
           /\ \/ Len(sent) = 3 /\ sent[2].type = "error"
              \/ /\ sent[2].type = "analysis"
                 /\ \A i \in 3..(Len(sent) - 1) : sent[i].type = "feedback"

\* C30: within a session frames reach the processor in arrival order: the
\* ProcessFrame call of a frame read earlier starts before that of a frame
\* read later.
C30_ArrivalOrder ==
    \A i, j \in 1..Len(pfOrder) : i < j => pfOrder[i] < pfOrder[j]

\* C31: for a frame whose processing succeeds the server writes one analysis
\* message and then one feedback message per feedback item of the result, in
\* list order; for a frame whose processing fails it writes one error message
\* and no analysis.  Nothing is written for a frame before ProcessFrame has
\* returned, and while its goroutine is sending, what is written is a prefix
\* of that sequence.
WrittenFor(f) ==
    LET ms == SelectSeq(sent, LAMBDA m : m.frame = f)
    IN  [ i \in 1..Len(ms) |-> << ms[i].type, ms[i].item >> ]
OwedFor(r) ==
    IF r.error = "none"
    THEN << << "analysis", NoFeedback >> >>
         \o [ i \in 1..Len(r.analysis.feedback) |-> << "feedback", r.analysis.feedback[i] >> ]
    ELSE << << "error", NoFeedback >> >>
C31_AnalysisThenFeedback ==
    \A f \in Frames :
        /\ tpc[f] \in { "none", "spawned", "processing" } => WrittenFor(f) = <<>>
        /\ tpc[f] = "send" =>
               /\ Len(WrittenFor(f)) <= Len(OwedFor(pfRet[f]))
               /\ WrittenFor(f) = SubSeq(OwedFor(pfRet[f]), 1, Len(WrittenFor(f)))
        /\ tpc[f] = "done" => WrittenFor(f) = OwedFor(pfRet[f])
\* Two frames are answered in full, one with a result of two feedback items
\* and one with an error, and the messages of the two are interleaved.
C31_Witness ==
    \E f, g \in Frames :
        /\ tpc[f] = "done" /\ tpc[g] = "done"
        /\ pfRet[f].error = "none" /\ Len(pfRet[f].analysis.feedback) = 2
        /\ pfRet[g].error # "none"
        /\ \E i, j, k \in 1..Len(sent) :
               /\ i < j /\ j < k
               /\ sent[i].frame = f /\ sent[j].frame = g /\ sent[k].frame = f

\* C32: one AnalyzeFrame call issues at most MaxRetries + 1 requests, makes no
\* attempt after a successful one, returns the result of the first successful
\* attempt, and returns an error only after MaxRetries + 1 failed attempts.
C32_BoundedAttempts ==
    /\ requests <= MaxRetries + 1
    /\ Len(tried) <= MaxRetries + 1
    /\ \A i \in 1..Len(tried) : tried[i] = "ok" => i = Len(tried)
    /\ aret = "result" <=> (tried # <<>> /\ tried[Len(tried)] = "ok")
    /\ aret = "error" =>
           /\ Len(tried) = MaxRetries + 1
           /\ \A i \in 1..Len(tried) : tried[i] # "ok"
    /\ apc = "returned" <=> aret # "none"
\* The call has returned an error after MaxRetries + 1 requests.
C32_Witness ==
    /\ aret = "error"
    /\ requests = MaxRetries + 1

\* C33: an attempt is followed by another one only if it ended in a transport
\* error (or before any request left) or in a non-2xx status; after a 2xx
\* answer with a malformed payload the call returns an error without another
\* request.
C33_MalformedIsFinal ==
    /\ \A i \in 1..Len(tried) - 1 :
           tried[i] \in { "no request", "transport", "status 500" }
    /\ (tried # <<>> /\ tried[Len(tried)] = "malformed") => aret = "error"

\* C34: once the shutdown has been signalled, the cache sweeper, the rate
\* limiter's reaper and the health checker leave their loops and the queue
\* workers exit.
C34_BackgroundTasksEnd ==
    (mainpc # "serving") ~>
        (/\ \A t \in BackgroundTasks : bpc[t] = "exited"
         /\ \A w \in Workers : wpc[w] = "exited")

\* C35: a Push puts the item immediately before the first item of strictly
\* lower priority, or at the end when there is none; the list is always in
\* non-increasing priority order; a Pop returns an item of maximal priority,
\* the one pushed first among those of that priority (nil on an empty list).
PushedInPlace ==
    pushed' = pushed + 1 =>
        \E i \in 0..Len(pqItems) :
            /\ pqItems' = SubSeq(pqItems, 1, i)
                             \o << QueueItemOf(pushed', pqItems'[i + 1].priority) >>
                             \o SubSeq(pqItems, i + 1, Len(pqItems))
            /\ \A j \in 1..i : pqItems[j].priority >= pqItems'[i + 1].priority
            /\ i < Len(pqItems) => pqItems[i + 1].priority < pqItems'[i + 1].priority
PoppedFirstOfBest ==
    Len(popped') = Len(popped) + 1 =>
        LET x == popped'[Len(popped')]
        IN  IF pqItems = <<>> THEN x = PQNil /\ pqItems' = <<>>
            ELSE /\ \E i \in 1..Len(pqItems) : pqItems[i] = x
                 /\ \A i \in 1..Len(pqItems) :
                        \/ pqItems[i].priority < x.priority
                        \/ pqItems[i].priority = x.priority /\ pqItems[i].id >= x.id
                 /\ Len(pqItems') = Len(pqItems) - 1
                 /\ \A i \in 1..Len(pqItems) :
                        pqItems[i] # x => \E j \in 1..Len(pqItems') : pqItems'[j] = pqItems[i]
C35_PriorityOrder ==
    /\ [](\A i \in 1..Len(pqItems) - 1 : pqItems[i].priority >= pqItems[i + 1].priority)
    /\ [][PushedInPlace /\ PoppedFirstOfBest]_vars
\* Three items of one priority and one of a higher priority pushed after the
\* first: the higher one has been popped first, then two of the others in
\* the order of their pushes.
C35_Witness ==
    /\ Len(popped) >= 3
    /\ popped[1].id = 2 /\ popped[1].priority = 3
    /\ popped[2].id = 1 /\ popped[2].priority = 2
    /\ popped[3].id = 3 /\ popped[3].priority = 2

\* C36: for every combination of the four scores generateFeedback returns
\* exactly the items of the rule table whose condition holds, in table order,
\* each with the score its condition tested (posture < 70 warning, posture >
\* 85 success, lane < 60 error, speed < 65 warning, overall > 80 success);
\* whether a rule fires depends on its own score only.
C36_RuleTable ==
    fbScores # NoScores =>
        LET o == fbScores[1]
            p == fbScores[2]
            l == fbScores[3]
            sp == fbScores[4]
            has(t, m, sc) == \E i \in 1..Len(fbOut) : fbOut[i] = Feedback(t, m, sc)
        IN  /\ fbOut = RuleFeedback(Result(o, p, l, sp, <<>>))
            /\ has("warning", "posture_low", p) <=> p < 70
            /\ has("success", "posture_high", p) <=> p > 85
            /\ has("error", "lane", l) <=> l < 60
            /\ has("warning", "speed", sp) <=> sp < 65
            /\ has("success", "overall", o) <=> o > 80
\* A call whose scores make four rules fire at once.
C36_Witness ==
    /\ fbScores = << 81, 69, 59, 64 >>
    /\ Len(fbOut) = 4

\* C37: every ProcessFrame call that returns has incremented one of
\* SuccessfullyProcessed and FailedProcessed, so whenever no call is under way
\* TotalProcessed = SuccessfullyProcessed + FailedProcessed.
C37_TotalIsSuccessPlusFailed ==
    NoCallInProgress => stats.total = stats.success + stats.failed

\* C38: a call returns the synthetic near-duplicate result only if an earlier
\* call for the same image has returned successfully.
C38_SyntheticOnlyAfterSuccess ==
    \A c \in Calls :
        (pc[c] = "done" /\ ret[c].kind = "ok" /\ ret[c].value = Synthetic
                        /\ enq[c].result = "none" /\ ~prior[c].seen) =>
            \E d \in Calls :
                /\ d < c
                /\ req[d].image = req[c].image
                /\ pc[d] = "done" /\ ret[d].kind = "ok"

\* C39: whatever the interleaving of Enqueue with Shutdown, Enqueue's send
\* never meets the closed intake channel (no panic), and no item enters the
\* buffer once all workers have exited.
SendMeetsOpenChannel == \A c \in Calls : pc[c] # "panicked" /\ enq[c].result # "panic"
AcceptedWhileServed ==
    \A c \in Calls :
        (~InBuffer(c) /\ InBuffer(c)') => \E w \in Workers : wpc[w] # "exited"
C39_NoSendOnClosedIntake ==
    /\ []SendMeetsOpenChannel
    /\ [][AcceptedWhileServed]_vars

\* C40: once a call has been allowed, a call made at least the time of one
\* token (1/rps seconds) later is allowed when every call in between was
\* refused: the refused calls do not throw away the time that has passed
\* since the bucket was emptied.
TicksPerToken == TicksPerSecond \div RateLimitRPS
C40_RefusedCallsKeepElapsed ==
    \A i, j \in 1..Len(lhist) :
        ( /\ i < j
          /\ lhist[i].ok
          /\ \A k \in (i + 1)..(j - 1) : ~lhist[k].ok
          /\ lhist[j].t - lhist[i].t >= TicksPerToken )
        => lhist[j].ok


====
